---------------------------- MODULE Spec2Model ----------------------------
(***************************************************************************)
(* A model of noetik's tool-call extraction pipeline:                      *)
(*   tools/tool_call_parser.py  the tolerant shallow-dict parser,          *)
(*   core/planner.py            BasePlanner._parse_response (classifier),  *)
(*   tools/__init__.py          the tool registry,                         *)
(*   agent/tool_executor.py     execute_tool (dispatcher).                 *)
(*                                                                         *)
(* A Python str is a sequence of one-character strings.  Indices are the   *)
(* 0-based indices of the source: At(s, i) is s[i], Slice(s, a, b) is      *)
(* s[a:b].  A function that can raise returns a record whose field kind is *)
(* "ok" or the name of the exception class.                                *)
(***************************************************************************)
EXTENDS Integers, Sequences, FiniteSets, TLC

VARIABLES
    content,        \* the text handed to the parser / classifier
    name_in,        \* round trip: the tool name that was serialised
    args_in,        \* round trip: the args mapping that was serialised
    src,            \* the driving script's record: the pieces a written text was
                    \* assembled from, or the runs made so far (kind "none" otherwise)
    run,            \* parse_tool_call run one loop iteration at a time: the text
                    \* scanned, the scan index and the frames of the active loops
    outcome,        \* what parse_tool_call did on content (kind "none" before)
    verdict,        \* what _parse_response did on content (kind "none" before)
    pc,             \* position of the driving script
    TOOL_REGISTRY,  \* tools/__init__.py: name -> callable
    wrappers,       \* names captured by the live decorators register_tool returned
    last_reg,       \* what the last registry operation did
    dispatch,       \* what the last execute_tool call did
    invoked,        \* the callables (with their kwargs) the last execute_tool ran
    api_call        \* client/cli.py: the call_api call in progress (its loop
                    \* variable, the POSTs made so far, what it returned)

vars == <<content, name_in, args_in, src, run, outcome, verdict, pc,
          TOOL_REGISTRY, wrappers, last_reg, dispatch, invoked, api_call>>

-----------------------------------------------------------------------------
(* Python str primitives                                                    *)

\* LET x == v IN F(x), with v evaluated once, before F
Let(v, F(_)) == CHOOSE r \in {F(x) : x \in {v}} : TRUE

Min(a, b) == IF a < b THEN a ELSE b

\* s[i] for 0 <= i < len(s)
At(s, i) == s[i + 1]

\* s[a:b] for 0 <= a; the end is clipped to len(s) as Python does
Slice(s, a, b) == SubSeq(s, a + 1, Min(b, Len(s)))

\* The characters str.strip() removes and the regex class \s matches
\* (str.isspace): the four of _WS and others, of which form feed and
\* vertical tab's stand-in "\f" is kept here.
PyWhitespace == {" ", "\t", "\r", "\n", "\f"}

RECURSIVE LStrip(_)
LStrip(s) ==
    IF Len(s) > 0 /\ Head(s) \in PyWhitespace THEN LStrip(Tail(s)) ELSE s

RECURSIVE RStrip(_)
RStrip(s) ==
    IF Len(s) > 0 /\ s[Len(s)] \in PyWhitespace
    THEN RStrip(SubSeq(s, 1, Len(s) - 1))
    ELSE s

\* str.strip()
Strip(s) == RStrip(LStrip(s))

\* str.startswith(p)
StartsWith(s, p) == Len(s) >= Len(p) /\ SubSeq(s, 1, Len(p)) = p


-----------------------------------------------------------------------------
(* tools/tool_call_parser.py                                                *)

ToolCallParseError == "ToolCallParseError"
IndexError == "IndexError"

\* raise ToolCallParseError(msg): pos and key are the values the f-string
\* interpolates (-1 and <<>> when the message has none)
Raise(msg, pos, key) ==
    [kind |-> ToolCallParseError, msg |-> msg, pos |-> pos, key |-> key]

\* s[i] with i >= len(s)
RaiseIndexError(pos) ==
    [kind |-> IndexError, msg |-> "string index out of range", pos |-> pos, key |-> <<>>]

\* return val, i
Ok(val, i) == [kind |-> "ok", val |-> val, i |-> i]

_WS == {" ", "\t", "\r", "\n"}
_QUOTE_SET == {"'", "\""}

RECURSIVE _skip_ws(_, _)
_skip_ws(s, i) ==
    IF i < Len(s) /\ At(s, i) \in _WS THEN _skip_ws(s, i + 1) ELSE i

\* the while loop of the triple-quote branch of _read_quoted
RECURSIVE _read_quoted_triple(_, _, _, _)
_read_quoted_triple(s, quote, start, i) ==
    IF i + 2 < Len(s)
    THEN IF Slice(s, i, i + 3) = quote
         THEN Ok(Slice(s, start, i), i + 3)
         ELSE _read_quoted_triple(s, quote, start, i + 1)
    ELSE Raise("unterminated triple-quoted string", -1, <<>>)

\* the single-quote loop with line 60 appending the backslash as well
RECURSIVE _read_quoted_single_keepsBackslash(_, _, _, _, _)
_read_quoted_single_keepsBackslash(s, quote, i, out, esc) ==
    IF i < Len(s)
    THEN Let(At(s, i), LAMBDA ch :
         IF esc
         THEN _read_quoted_single_keepsBackslash(s, quote, i + 1, out \o <<"\\", ch>>, FALSE)
         ELSE IF ch = "\\" THEN _read_quoted_single_keepsBackslash(s, quote, i + 1, out, TRUE)
         ELSE IF ch = quote THEN Ok(out, i + 1)
         ELSE _read_quoted_single_keepsBackslash(s, quote, i + 1, Append(out, ch), FALSE))
    ELSE Raise("unterminated string literal", -1, <<>>)

\* the while loop of the single-quote branch of _read_quoted
RECURSIVE _read_quoted_single(_, _, _, _, _)
_read_quoted_single(s, quote, i, out, esc) ==
    IF i < Len(s)
    THEN Let(At(s, i), LAMBDA ch :
         IF esc THEN _read_quoted_single(s, quote, i + 1, Append(out, ch), FALSE)
         ELSE IF ch = "\\" THEN _read_quoted_single(s, quote, i + 1, out, TRUE)
         ELSE IF ch = quote THEN Ok(out, i + 1)
         ELSE _read_quoted_single(s, quote, i + 1, Append(out, ch), FALSE))
    ELSE Raise("unterminated string literal", -1, <<>>)

\* _read_quoted without the triple-quote check of lines 36-48
_read_quoted_noTriple(s, i) ==
    IF i >= Len(s) THEN RaiseIndexError(i)
    ELSE IF At(s, i) \notin _QUOTE_SET THEN Raise("expected quote at pos {i}", i, <<>>)
    ELSE _read_quoted_single(s, At(s, i), i + 1, <<>>, FALSE)

\* _read_quoted with line 36 written as  if i + 3 < len(s)
_read_quoted_tripleNeedsMore(s, i) ==
    IF i + 3 < Len(s)
       /\ Slice(s, i, i + 3) \in {<<"'", "'", "'">>, <<"\"", "\"", "\"">>}
    THEN _read_quoted_triple(s, Slice(s, i, i + 3), i + 3, i + 3)
    ELSE IF i >= Len(s) THEN RaiseIndexError(i)
    ELSE IF At(s, i) \notin _QUOTE_SET THEN Raise("expected quote at pos {i}", i, <<>>)
    ELSE _read_quoted_single(s, At(s, i), i + 1, <<>>, FALSE)

_read_quoted(s, i) ==
    IF i + 2 < Len(s)
       /\ Slice(s, i, i + 3) \in {<<"'", "'", "'">>, <<"\"", "\"", "\"">>}
    THEN _read_quoted_triple(s, Slice(s, i, i + 3), i + 3, i + 3)
    ELSE IF i >= Len(s) THEN RaiseIndexError(i)
    ELSE IF At(s, i) \notin _QUOTE_SET THEN Raise("expected quote at pos {i}", i, <<>>)
    ELSE _read_quoted_single(s, At(s, i), i + 1, <<>>, FALSE)

\* the loop of _find_matching_brace without lines 83-85 (quotes not skipped)
RECURSIVE _find_matching_brace_loop_countsQuoted(_, _, _)
_find_matching_brace_loop_countsQuoted(s, i, depth) ==
    IF i < Len(s)
    THEN Let(At(s, i), LAMBDA ch :
         IF ch = "{" THEN _find_matching_brace_loop_countsQuoted(s, i + 1, depth + 1)
         ELSE IF ch = "}"
              THEN IF depth - 1 = 0
                   THEN Ok(<<>>, i + 1)
                   ELSE _find_matching_brace_loop_countsQuoted(s, i + 1, depth - 1)
         ELSE _find_matching_brace_loop_countsQuoted(s, i + 1, depth))
    ELSE Raise("unbalanced braces", -1, <<>>)

\* the while loop of _find_matching_brace; returns Ok(<<>>, j)
RECURSIVE _find_matching_brace_loop(_, _, _)
_find_matching_brace_loop(s, i, depth) ==
    IF i < Len(s)
    THEN Let(At(s, i), LAMBDA ch :
         IF ch = "{" THEN _find_matching_brace_loop(s, i + 1, depth + 1)
         ELSE IF ch = "}"
              THEN IF depth - 1 = 0
                   THEN Ok(<<>>, i + 1)
                   ELSE _find_matching_brace_loop(s, i + 1, depth - 1)
         ELSE IF ch \in _QUOTE_SET
              THEN Let(_read_quoted(s, i), LAMBDA q :
                   IF q.kind # "ok" THEN q
                   ELSE _find_matching_brace_loop(s, q.i, depth))
         ELSE _find_matching_brace_loop(s, i + 1, depth))
    ELSE Raise("unbalanced braces", -1, <<>>)

_find_matching_brace(s, i) == _find_matching_brace_loop(s, i, 0)

\* _read_key without lines 96-97 (a ':' is skipped when present, never required)
_read_key_colonOptional(s, i0) ==
    Let(_skip_ws(s, i0), LAMBDA i :
    IF i >= Len(s) THEN RaiseIndexError(i)
    ELSE IF At(s, i) \notin _QUOTE_SET
    THEN Raise("dict key at pos {i} must be quoted", i, <<>>)
    ELSE Let(_read_quoted(s, i), LAMBDA q :
         IF q.kind # "ok" THEN q
         ELSE Let(_skip_ws(s, q.i), LAMBDA j :
              IF j >= Len(s) \/ At(s, j) # ":" THEN Ok(q.val, j)
              ELSE Ok(q.val, j + 1))))

\* _read_key with line 96 written as  if s[i] != ":"
_read_key_noEndCheck(s, i0) ==
    Let(_skip_ws(s, i0), LAMBDA i :
    IF i >= Len(s) THEN RaiseIndexError(i)
    ELSE IF At(s, i) \notin _QUOTE_SET
    THEN Raise("dict key at pos {i} must be quoted", i, <<>>)
    ELSE Let(_read_quoted(s, i), LAMBDA q :
         IF q.kind # "ok" THEN q
         ELSE Let(_skip_ws(s, q.i), LAMBDA j :
              IF j >= Len(s) THEN RaiseIndexError(j)
              ELSE IF At(s, j) # ":"
              THEN Raise("missing ':' after key {key!r}", -1, q.val)
              ELSE Ok(q.val, j + 1))))

_read_key(s, i0) ==
    Let(_skip_ws(s, i0), LAMBDA i :
    IF i >= Len(s) THEN RaiseIndexError(i)
    ELSE IF At(s, i) \notin _QUOTE_SET
    THEN Raise("dict key at pos {i} must be quoted", i, <<>>)
    ELSE Let(_read_quoted(s, i), LAMBDA q :
         IF q.kind # "ok" THEN q
         ELSE Let(_skip_ws(s, q.i), LAMBDA j :
              IF j >= Len(s) \/ At(s, j) # ":"
              THEN Raise("missing ':' after key {key!r}", -1, q.val)
              ELSE Ok(q.val, j + 1))))

\* the raw-scalar loop with line 126 written as  elif ch == ","  (any depth)
RECURSIVE _read_value_scan_anyComma(_, _, _)
_read_value_scan_anyComma(s, i, depth) ==
    IF i < Len(s)
    THEN Let(At(s, i), LAMBDA ch :
         IF ch \in _QUOTE_SET
         THEN Let(_read_quoted(s, i), LAMBDA q :
              IF q.kind # "ok" THEN q ELSE _read_value_scan_anyComma(s, q.i, depth))
         ELSE IF ch = "{" THEN _read_value_scan_anyComma(s, i + 1, depth + 1)
         ELSE IF ch = "}"
              THEN IF depth = 0 THEN Ok(<<>>, i)
                   ELSE _read_value_scan_anyComma(s, i + 1, depth - 1)
         ELSE IF ch = "," THEN Ok(<<>>, i)
         ELSE _read_value_scan_anyComma(s, i + 1, depth))
    ELSE Ok(<<>>, i)

\* the while loop of the raw-scalar branch of _read_value; returns the index
\* the loop stops at
RECURSIVE _read_value_scan(_, _, _)
_read_value_scan(s, i, depth) ==
    IF i < Len(s)
    THEN Let(At(s, i), LAMBDA ch :
         IF ch \in _QUOTE_SET
         THEN Let(_read_quoted(s, i), LAMBDA q :
              IF q.kind # "ok" THEN q ELSE _read_value_scan(s, q.i, depth))
         ELSE IF ch = "{" THEN _read_value_scan(s, i + 1, depth + 1)
         ELSE IF ch = "}"
              THEN IF depth = 0 THEN Ok(<<>>, i)
                   ELSE _read_value_scan(s, i + 1, depth - 1)
         ELSE IF ch = "," /\ depth = 0 THEN Ok(<<>>, i)
         ELSE _read_value_scan(s, i + 1, depth))
    ELSE Ok(<<>>, i)

\* _read_value with line 107 keeping the quotes: the source text of the literal
_read_value_keepsQuotes(s, i0) ==
    Let(_skip_ws(s, i0), LAMBDA i :
    IF i >= Len(s) THEN Raise("unexpected end of input while reading value", -1, <<>>)
    ELSE IF At(s, i) \in _QUOTE_SET
    THEN Let(_read_quoted(s, i), LAMBDA q :
         IF q.kind # "ok" THEN q ELSE Ok(Slice(s, i, q.i), q.i))
    ELSE IF At(s, i) = "{"
    THEN Let(_find_matching_brace(s, i), LAMBDA b :
         IF b.kind # "ok" THEN b ELSE Ok(Slice(s, i, b.i), b.i))
    ELSE Let(_read_value_scan(s, i, 0), LAMBDA e :
         IF e.kind # "ok" THEN e ELSE Ok(Strip(Slice(s, i, e.i)), e.i)))

\* _read_value with line 110 written as  return s[i + 1 : j - 1], j  (braces dropped)
_read_value_nestedInner(s, i0) ==
    Let(_skip_ws(s, i0), LAMBDA i :
    IF i >= Len(s) THEN Raise("unexpected end of input while reading value", -1, <<>>)
    ELSE IF At(s, i) \in _QUOTE_SET THEN _read_quoted(s, i)
    ELSE IF At(s, i) = "{"
    THEN Let(_find_matching_brace(s, i), LAMBDA b :
         IF b.kind # "ok" THEN b ELSE Ok(Slice(s, i + 1, b.i - 1), b.i))
    ELSE Let(_read_value_scan(s, i, 0), LAMBDA e :
         IF e.kind # "ok" THEN e ELSE Ok(Strip(Slice(s, i, e.i)), e.i)))

\* _read_value with the content of a quoted value trimmed like a raw scalar
_read_value_stripsQuoted(s, i0) ==
    Let(_skip_ws(s, i0), LAMBDA i :
    IF i >= Len(s) THEN Raise("unexpected end of input while reading value", -1, <<>>)
    ELSE IF At(s, i) \in _QUOTE_SET
    THEN Let(_read_quoted(s, i), LAMBDA q :
         IF q.kind # "ok" THEN q ELSE Ok(Strip(q.val), q.i))
    ELSE IF At(s, i) = "{"
    THEN Let(_find_matching_brace(s, i), LAMBDA b :
         IF b.kind # "ok" THEN b ELSE Ok(Slice(s, i, b.i), b.i))
    ELSE Let(_read_value_scan(s, i, 0), LAMBDA e :
         IF e.kind # "ok" THEN e ELSE Ok(Strip(Slice(s, i, e.i)), e.i)))

_read_value(s, i0) ==
    Let(_skip_ws(s, i0), LAMBDA i :
    IF i >= Len(s) THEN Raise("unexpected end of input while reading value", -1, <<>>)
    ELSE IF At(s, i) \in _QUOTE_SET THEN _read_quoted(s, i)
    ELSE IF At(s, i) = "{"
    THEN Let(_find_matching_brace(s, i), LAMBDA b :
         IF b.kind # "ok" THEN b ELSE Ok(Slice(s, i, b.i), b.i))
    ELSE Let(_read_value_scan(s, i, 0), LAMBDA e :
         IF e.kind # "ok" THEN e ELSE Ok(Strip(Slice(s, i, e.i)), e.i)))

\* out.setdefault(key, val): a key that is already bound keeps its value
DictSet_firstWins(out, key, val) ==
    [k \in DOMAIN out \cup {key} |-> IF k \in DOMAIN out THEN out[k] ELSE val]

\* out[key] = val on a dict
DictSet(out, key, val) ==
    [k \in DOMAIN out \cup {key} |-> IF k = key THEN val ELSE out[k]]

EmptyDict == [k \in {} |-> <<>>]

\* the loop of _parse_shallow_dict returning as soon as "args" is stored
RECURSIVE _parse_shallow_dict_loop_endsAtArgs(_, _, _)
_parse_shallow_dict_loop_endsAtArgs(s, i0, out) ==
    Let(_skip_ws(s, i0), LAMBDA i :
    IF i >= Len(s) THEN Raise("unexpected end of input in dict", -1, <<>>)
    ELSE IF At(s, i) = "}" THEN Ok(out, i)
    ELSE Let(_read_key(s, i), LAMBDA k :
         IF k.kind # "ok" THEN k
         ELSE Let(_read_value(s, k.i), LAMBDA v :
              IF v.kind # "ok" THEN v
              ELSE Let(_skip_ws(s, v.i), LAMBDA j :
                   Let(DictSet(out, k.val, v.val), LAMBDA out1 :
                   IF k.val = <<"a", "r", "g", "s">> THEN Ok(out1, j)
                   ELSE _parse_shallow_dict_loop_endsAtArgs(
                            s,
                            IF j < Len(s) /\ At(s, j) = "," THEN j + 1 ELSE j,
                            out1))))))

\* the loop of _parse_shallow_dict accepting only '}' after a value without a comma
RECURSIVE _parse_shallow_dict_loop_commaRequired(_, _, _)
_parse_shallow_dict_loop_commaRequired(s, i0, out) ==
    Let(_skip_ws(s, i0), LAMBDA i :
    IF i >= Len(s) THEN Raise("unexpected end of input in dict", -1, <<>>)
    ELSE IF At(s, i) = "}" THEN Ok(out, i)
    ELSE Let(_read_key(s, i), LAMBDA k :
         IF k.kind # "ok" THEN k
         ELSE Let(_read_value(s, k.i), LAMBDA v :
              IF v.kind # "ok" THEN v
              ELSE Let(_skip_ws(s, v.i), LAMBDA j :
                   Let(DictSet(out, k.val, v.val), LAMBDA out1 :
                   IF j < Len(s) /\ At(s, j) = ","
                   THEN _parse_shallow_dict_loop_commaRequired(s, j + 1, out1)
                   ELSE IF j < Len(s) /\ At(s, j) = "}" THEN Ok(out1, j)
                   ELSE Raise("expected ',' or '}'", j, <<>>))))))

\* the while True loop of _parse_shallow_dict; returns Ok(out, i)
RECURSIVE _parse_shallow_dict_loop(_, _, _)
_parse_shallow_dict_loop(s, i0, out) ==
    Let(_skip_ws(s, i0), LAMBDA i :
    IF i >= Len(s) THEN Raise("unexpected end of input in dict", -1, <<>>)
    ELSE IF At(s, i) = "}" THEN Ok(out, i)
    ELSE Let(_read_key(s, i), LAMBDA k :
         IF k.kind # "ok" THEN k
         ELSE Let(_read_value(s, k.i), LAMBDA v :
              IF v.kind # "ok" THEN v
              ELSE Let(_skip_ws(s, v.i), LAMBDA j :
                   Let(DictSet(out, k.val, v.val), LAMBDA out1 :
                   _parse_shallow_dict_loop(
                       s,
                       IF j < Len(s) /\ At(s, j) = "," THEN j + 1 ELSE j,
                       out1))))))

\* _parse_shallow_dict requiring the closing '}' to end the text
_parse_shallow_dict_strictEnd(s) ==
    Let(_skip_ws(s, 0), LAMBDA i :
    IF i >= Len(s) \/ At(s, i) # "{" THEN Raise("dict must start with '{'", -1, <<>>)
    ELSE Let(_parse_shallow_dict_loop(s, i + 1, EmptyDict), LAMBDA d :
         IF d.kind = "ok" /\ _skip_ws(s, d.i + 1) < Len(s)
         THEN Raise("trailing characters after '}'", d.i + 1, <<>>)
         ELSE d))

_parse_shallow_dict(s) ==
    Let(_skip_ws(s, 0), LAMBDA i :
    IF i >= Len(s) \/ At(s, i) # "{" THEN Raise("dict must start with '{'", -1, <<>>)
    ELSE _parse_shallow_dict_loop(s, i + 1, EmptyDict))

\* the literals "tool" and "args"
TOOL == <<"t", "o", "o", "l">>
ARGS == <<"a", "r", "g", "s">>

\* return {"tool": tool_val, "args": args_dict}
Envelope(tool_val, args_dict) == [kind |-> "ok", tool |-> tool_val, args |-> args_dict]

\* lines 166-181 with a missing "args" read as top.get("args", "{}")
_tool_call_of_argsOptional(top) ==
    IF TOOL \notin DOMAIN top
    THEN Raise("both 'tool' and 'args' keys are required", -1, <<>>)
    ELSE Let(Strip(top[TOOL]), LAMBDA tool_val :
         Let(IF ARGS \in DOMAIN top THEN Strip(top[ARGS]) ELSE <<"{", "}">>, LAMBDA args_raw :
             IF tool_val = <<>> THEN Raise("'tool' name is empty", -1, <<>>)
             ELSE IF ~StartsWith(args_raw, <<"{">>)
             THEN Raise("'args' must start with '{'", -1, <<>>)
             ELSE Let(_parse_shallow_dict(args_raw), LAMBDA args_dict :
                  IF args_dict.kind # "ok" THEN args_dict
                  ELSE Envelope(tool_val, args_dict.val))))

\* lines 166-181 without the strip() of line 171
_tool_call_of_untrimmedName(top) ==
    IF TOOL \notin DOMAIN top \/ ARGS \notin DOMAIN top
    THEN Raise("both 'tool' and 'args' keys are required", -1, <<>>)
    ELSE Let(top[TOOL], LAMBDA tool_val :
         Let(Strip(top[ARGS]), LAMBDA args_raw :
             IF tool_val = <<>> THEN Raise("'tool' name is empty", -1, <<>>)
             ELSE IF ~StartsWith(args_raw, <<"{">>)
             THEN Raise("'args' must start with '{'", -1, <<>>)
             ELSE Let(_parse_shallow_dict(args_raw), LAMBDA args_dict :
                  IF args_dict.kind # "ok" THEN args_dict
                  ELSE Envelope(tool_val, args_dict.val))))

\* lines 166-181 of parse_tool_call, on the outer mapping
_tool_call_of(top) ==
    IF TOOL \notin DOMAIN top \/ ARGS \notin DOMAIN top
    THEN Raise("both 'tool' and 'args' keys are required", -1, <<>>)
    ELSE Let(Strip(top[TOOL]), LAMBDA tool_val :
         Let(Strip(top[ARGS]), LAMBDA args_raw :
             IF tool_val = <<>> THEN Raise("'tool' name is empty", -1, <<>>)
             ELSE IF ~StartsWith(args_raw, <<"{">>)
             THEN Raise("'args' must start with '{'", -1, <<>>)
             ELSE Let(_parse_shallow_dict(args_raw), LAMBDA args_dict :
                  IF args_dict.kind # "ok" THEN args_dict
                  ELSE Envelope(tool_val, args_dict.val))))

\* parse_tool_call consulting the registry: only the imported tools may be called
\* once another tool is registered
parse_tool_call_registryGated(text) ==
    Let(_parse_shallow_dict(text), LAMBDA top :
    IF top.kind # "ok" THEN top
    ELSE IF DOMAIN TOOL_REGISTRY # {"echo"}
    THEN Raise("tool calls are disabled", -1, <<>>)
    ELSE _tool_call_of(top.val))

parse_tool_call(text) ==
    Let(_parse_shallow_dict(text), LAMBDA top :
    IF top.kind # "ok" THEN top ELSE _tool_call_of(top.val))

-----------------------------------------------------------------------------
(* core/planner.py, core/schema.py                                          *)

\* BasePlanner.llm_answer_prefix = "Answer:"
llm_answer_prefix == <<"A", "n", "s", "w", "e", "r", ":">>

\* \s* of the regex, from index i
RECURSIVE SkipSpace(_, _)
SkipSpace(s, i) ==
    IF i < Len(s) /\ At(s, i) \in PyWhitespace THEN SkipSpace(s, i + 1) ELSE i

\* re.match(r'\{\s*(["\'])tool\1\s*:', s)
ToolCallShape(s) ==
    /\ Len(s) > 0
    /\ At(s, 0) = "{"
    /\ \E i \in {SkipSpace(s, 1)} :
       /\ i + 5 < Len(s)
       /\ At(s, i) \in {"\"", "'"}
       /\ Slice(s, i + 1, i + 5) = TOOL
       /\ At(s, i + 5) = At(s, i)
       /\ \E j \in {SkipSpace(s, i + 6)} : j < Len(s) /\ At(s, j) = ":"

\* A str the planner builds with an f-string: the literal it starts with, the
\* text interpolated after it and, when an exception is interpolated as
\* "\nError: {e}", that exception.  A plain str has the empty literal and no
\* exception.
NoError == [kind |-> "none", msg |-> "", pos |-> -1, key |-> <<>>]
Str(lit, text, err) == [none |-> FALSE, lit |-> lit, text |-> text, err |-> err]
Plain(text) == Str("", text, NoError)
None == [none |-> TRUE]

\* ToolCall(name=..., args=...)
ToolCall(name, args) == [name |-> name, args |-> args]

\* return calls, answer
Verdict(calls, answer) == [kind |-> "ok", tool_calls |-> calls, answer |-> answer]

\* the failure text of lines 155-156 without line 157's  err += f"\nError: {e}"
ParseFailureAnswer_noDetail(s, e) == Str("Failed to parse tool use response: ", s, NoError)

\* lines 155-159: err = f"Failed to parse tool use response: {s}" + f"\nError: {e}"
ParseFailureAnswer(s, e) == Str("Failed to parse tool use response: ", s, e)

\* the answer-prefix branch with line 149 written as  s[len(prefix):]
AnswerBranch_untrimmed(s) ==
    Verdict(<<>>, Plain(Slice(s, Len(llm_answer_prefix), Len(s))))

\* lines 148-150, 175, 182: the answer-prefix branch
AnswerBranch(s) ==
    Verdict(<<>>, Plain(Strip(Slice(s, Len(llm_answer_prefix), Len(s)))))

\* the tool-call branch with line 180 written as  return calls, s
ToolCallBranch_keepsAnswer(c, s) ==
    Let(parse_tool_call(s), LAMBDA d :
    IF d.kind = ToolCallParseError THEN Verdict(<<>>, ParseFailureAnswer(s, d))
    ELSE IF d.kind # "ok"
    THEN Verdict(<<>>, Str("Error parsing LLM response: ", c, NoError))
    ELSE Verdict(<<ToolCall(d.tool, d.args)>>, Plain(s)))

\* lines 151-169, 175-180: the tool-call branch
ToolCallBranch(c, s) ==
    Let(parse_tool_call(s), LAMBDA d :
    IF d.kind = ToolCallParseError THEN Verdict(<<>>, ParseFailureAnswer(s, d))
    ELSE IF d.kind # "ok"
    THEN \* except Exception, lines 184-186
         Verdict(<<>>, Str("Error parsing LLM response: ", c, NoError))
    ELSE Verdict(<<ToolCall(d.tool, d.args)>>, None))

\* lines 170-173: neither shape
FallbackBranch(s) == Verdict(<<>>, Plain(s))

\* _parse_response with line 151 written as  elif s.startswith("{")
_parse_response_anyBrace(c) ==
    Let(Strip(c), LAMBDA s :
    IF StartsWith(s, llm_answer_prefix) THEN AnswerBranch(s)
    ELSE IF StartsWith(s, <<"{">>) THEN ToolCallBranch(c, s)
    ELSE FallbackBranch(s))

_parse_response(c) ==
    Let(Strip(c), LAMBDA s :
    IF StartsWith(s, llm_answer_prefix) THEN AnswerBranch(s)
    ELSE IF ToolCallShape(s) THEN ToolCallBranch(c, s)
    ELSE FallbackBranch(s))

-----------------------------------------------------------------------------
(* tools/__init__.py, agent/tool_executor.py, tests/test_tool_executor.py   *)

\* Python values passed to and returned by tools
PyInt(n) == [type |-> "int", n |-> n, s |-> <<>>]
PyStr(s) == [type |-> "str", n |-> 0, s |-> s]
PyNone == [type |-> "NoneType", n |-> 0, s |-> <<>>]

\* what calling a function object did: it returned a value or raised
Returned(v) == [kind |-> "return", value |-> v, exc |-> "", text |-> "", arg |-> ""]
Raised(exc, text, arg) ==
    [kind |-> "raise", value |-> PyNone, exc |-> exc, text |-> text, arg |-> arg]

\* The function objects that can be registered: echo_tool (tools/__init__.py)
\* and _add (the test suite's tool) as written, and two tools whose bodies
\* fail: _boom raises RuntimeError, _quit raises SystemExit.
Callables == {"echo_tool", "_add", "_boom", "_quit"}

\* the parameters of each signature (all required, none with a default)
Parameters(fn) ==
    CASE fn = "echo_tool" -> {"text"}
      [] fn = "_add"      -> {"a", "b"}
      [] fn = "_boom"     -> {}
      [] fn = "_quit"     -> {}

\* the exception classes that derive from Exception
ExceptionClasses == {"TypeError", "RuntimeError", "ValueError", "IndexError"}

\* a + b on Python values
PyAdd(a, b) ==
    IF a.type = "int" /\ b.type = "int" THEN Returned(PyInt(a.n + b.n))
    ELSE IF a.type = "str" /\ b.type = "str" THEN Returned(PyStr(a.s \o b.s))
    ELSE Raised("TypeError", "unsupported operand type(s) for +", "")

\* the body of fn run on bound keyword arguments
Body(fn, kwargs) ==
    CASE fn = "echo_tool" -> Returned(kwargs["text"])
      [] fn = "_add"      -> PyAdd(kwargs["a"], kwargs["b"])
      [] fn = "_boom"     -> Raised("RuntimeError", "boom", "")
      [] fn = "_quit"     -> Raised("SystemExit", "0", "")

\* binding **kwargs to the signature: the interpreter raises TypeError before
\* the body runs when a name is not a parameter or a parameter gets no value
BindFailure(fn, kwargs) ==
    IF DOMAIN kwargs \ Parameters(fn) # {}
    THEN Raised("TypeError", "got an unexpected keyword argument",
                CHOOSE k \in DOMAIN kwargs \ Parameters(fn) : TRUE)
    ELSE Raised("TypeError", "missing required positional argument",
                CHOOSE k \in Parameters(fn) \ DOMAIN kwargs : TRUE)

Binds(fn, kwargs) == DOMAIN kwargs = Parameters(fn)

\* tool_fn(**args): what the call did, and whether the body ran
Call(fn, kwargs) ==
    IF Binds(fn, kwargs)
    THEN [fn |-> fn, kwargs |-> kwargs, ran |-> TRUE, did |-> Body(fn, kwargs)]
    ELSE [fn |-> fn, kwargs |-> kwargs, ran |-> FALSE, did |-> BindFailure(fn, kwargs)]

ToolExecutionError == "ToolExecutionError"

\* raise ToolExecutionError(f"...{name}...{exc}")
DispatchError(msg, name, did) ==
    [kind |-> ToolExecutionError, msg |-> msg, name |-> name,
     detail |-> did.text, arg |-> did.arg, value |-> PyNone]

NoDetail == Raised("", "", "")

\* the except clauses without lines 51-54 (no  except TypeError)
WrapException_noTypeErrorClause(name, did) ==
    IF did.exc \in ExceptionClasses
    THEN DispatchError("Tool '{name}' raised an error: {exc}", name, did)
    ELSE [kind |-> did.exc, msg |-> "", name |-> name,
          detail |-> did.text, arg |-> did.arg, value |-> PyNone]

\* lines 51-57: the two except clauses, on the exception the call raised
WrapException(name, did) ==
    IF did.exc = "TypeError"
    THEN DispatchError("Invalid arguments for tool '{name}': {exc}", name, did)
    ELSE IF did.exc \in ExceptionClasses
    THEN DispatchError("Tool '{name}' raised an error: {exc}", name, did)
    ELSE \* not an Exception: no clause catches it
         [kind |-> did.exc, msg |-> "", name |-> name,
          detail |-> did.text, arg |-> did.arg, value |-> PyNone]

\* args of None stands for an absent argument
NoArgs == [k \in {} |-> PyNone]

\* the try block with line 50 written as  tool_fn(**args)  (no return)
Invoke_returnsNone(name, tool_fn, args) ==
    Let(Call(tool_fn, args), LAMBDA c :
    [result |-> IF c.did.kind = "return"
                THEN [kind |-> "ok", msg |-> "", name |-> name,
                      detail |-> "", arg |-> "", value |-> PyNone]
                ELSE WrapException(name, c.did),
     calls  |-> <<c>>])

\* the try block calling tool_fn a second time when the first call raised
Invoke_retries(name, tool_fn, args) ==
    Let(Call(tool_fn, args), LAMBDA c :
    [result |-> IF c.did.kind = "return"
                THEN [kind |-> "ok", msg |-> "", name |-> name,
                      detail |-> "", arg |-> "", value |-> c.did.value]
                ELSE WrapException(name, c.did),
     calls  |-> IF c.did.kind = "return" THEN <<c>> ELSE <<c, c>>])

\* lines 48-57: the try block, for the callable tool_fn found under name
Invoke(name, tool_fn, args) ==
    Let(Call(tool_fn, args), LAMBDA c :
    [result |-> IF c.did.kind = "return"
                THEN [kind |-> "ok", msg |-> "", name |-> name,
                      detail |-> "", arg |-> "", value |-> c.did.value]
                ELSE WrapException(name, c.did),
     calls  |-> <<c>>])

\* the lookup with line 44 written as  TOOL_REGISTRY.get(name, echo_tool)
UnknownTool_defaultsToEcho(name) == Invoke(name, "echo_tool", NoArgs)

\* lines 44-46: the failed lookup
UnknownTool(name) ==
    [result |-> DispatchError("Tool '{name}' is not registered.", name, NoDetail),
     calls  |-> <<>>]

\* the lookup written as  TOOL_REGISTRY.pop(name, None)
RegistryGet_pops(reg, name) ==
    [found    |-> name \in DOMAIN reg,
     fn       |-> IF name \in DOMAIN reg THEN reg[name] ELSE "None",
     registry |-> [k \in DOMAIN reg \ {name} |-> reg[k]]]

\* line 44, TOOL_REGISTRY.get(name): the callable found (None when there is
\* none) and the registry as the lookup leaves it
RegistryGet(reg, name) ==
    [found    |-> name \in DOMAIN reg,
     fn       |-> IF name \in DOMAIN reg THEN reg[name] ELSE "None",
     registry |-> reg]

\* execute_tool(name, args) on registry reg: the result, the calls it made and
\* the registry it leaves.  absent is TRUE when args is None.
execute_tool(reg, name, absent, args0) ==
    LET args == IF absent THEN NoArgs ELSE args0
        got  == RegistryGet(reg, name)
        r    == IF ~got.found THEN UnknownTool(name) ELSE Invoke(name, got.fn, args)
    IN  [result |-> r.result, calls |-> r.calls, registry |-> got.registry]

\* register_tool(name), lines 51-60: ValueError, or the wrapper is returned
register_tool(reg, name) ==
    IF name \in DOMAIN reg
    THEN [op |-> "register_tool", name |-> name, kind |-> "ValueError"]
    ELSE [op |-> "register_tool", name |-> name, kind |-> "ok"]

\* wrapper(fn), lines 56-58: TOOL_REGISTRY[name] = fn
wrapper(reg, name, fn) ==
    [k \in DOMAIN reg \cup {name} |-> IF k = name THEN fn ELSE reg[k]]

-----------------------------------------------------------------------------
(* Inputs                                                                   *)

\* longest text drawn from Alphabet
MaxLen == 4
\* longest tool name serialised
MaxNameLen == 2
\* most entries of a serialised args mapping
MaxArgs == 2

Alphabet == {"{", "}", "\"", "'", "\\", ":", ",", " ", "a"}

\* every text over S of at most n characters
Strings(S, n) == UNION {[1..k -> S] : k \in 0..n}

ShortTexts == Strings(Alphabet, MaxLen)

DQ == "\""
SQ == "'"
Quoted(q, s) == <<q>> \o s \o <<q>>

\* source text of keys: "tool", 'tool', "args", 'x' and the unquoted tool
KeyTexts ==
    {Quoted(DQ, TOOL), Quoted(SQ, TOOL), Quoted(DQ, ARGS), Quoted(SQ, <<"x">>), TOOL}

\* source text of values: "echo", " x ", " ", {}, {"k": "v"}, "{}" and 7
ValueTexts ==
    {Quoted(DQ, <<"e", "c", "h", "o">>),
     Quoted(DQ, <<" ", "x", " ">>),
     Quoted(DQ, <<" ">>),
     <<"{", "}">>,
     <<"{">> \o Quoted(DQ, <<"k">>) \o <<":", " ">> \o Quoted(DQ, <<"v">>) \o <<"}">>,
     Quoted(DQ, <<"{", "}">>),
     <<"7">>}

Separators == {<<",", " ">>, <<" ">>}

Entry(k, v) == k \o <<":", " ">> \o v

\* { k1: v1 } and { k1: v1 <sep> k2: v2 }
EnvelopeTexts ==
    {<<"{">> \o Entry(k, v) \o <<"}">> : k \in KeyTexts, v \in ValueTexts}
    \cup
    {<<"{">> \o Entry(e[1], e[2]) \o e[5] \o Entry(e[3], e[4]) \o <<"}">> :
        e \in KeyTexts \X ValueTexts \X KeyTexts \X ValueTexts \X Separators}

\* {"tool": "echo", "args": {"text": "hi"}}
EchoCall ==
    <<"{">> \o Entry(Quoted(DQ, TOOL), Quoted(DQ, <<"e", "c", "h", "o">>))
    \o <<",", " ">>
    \o Entry(Quoted(DQ, ARGS),
             <<"{">> \o Entry(Quoted(DQ, <<"t", "e", "x", "t">>),
                              Quoted(DQ, <<"h", "i">>)) \o <<"}">>)
    \o <<"}">>

\* every text EchoCall is cut down to
TruncatedTexts == {SubSeq(EchoCall, 1, n) : n \in 0..Len(EchoCall)}

\* what may surround a reply: nothing, a space, a form feed, a newline
Pads == {<<>>, <<" ">>, <<"\f">>, <<"\n">>}

\* "Answer:", "Answer: 42", "Answer:  ", "xAnswer: 42", "just chatting" (as "hi a")
\* and replies that open like a tool call
ReplyCores ==
    {llm_answer_prefix,
     llm_answer_prefix \o <<" ", "4", "2">>,
     llm_answer_prefix \o <<" ", " ">>,
     llm_answer_prefix \o <<"4", " ", "2">>,
     <<"x">> \o llm_answer_prefix \o <<" ", "4", "2">>,
     <<"h", "i", " ", "a">>,
     EchoCall,
     EchoCall \o <<" ", "o", "k">>,
     <<"{", " ">> \o Quoted(SQ, TOOL) \o <<" ", ":", " ">> \o Quoted(SQ, <<"e">>)
        \o <<",">> \o Quoted(SQ, ARGS) \o <<":", "{", "}", "}">>,
     <<"{", "\f">> \o Quoted(DQ, TOOL) \o <<":">> \o Quoted(DQ, <<"e">>)
        \o <<",">> \o Quoted(DQ, ARGS) \o <<":", "{", "}", "}">>,
     <<"{">> \o Quoted(DQ, TOOL) \o <<"\f", ":">> \o Quoted(DQ, <<"e">>)
        \o <<",">> \o Quoted(DQ, ARGS) \o <<":", "{", "}", "}">>,
     <<"{">> \o <<DQ>> \o TOOL \o <<SQ>> \o <<":">> \o Quoted(DQ, <<"e">>) \o <<"}">>}

Replies == {e[1] \o e[2] \o e[3] : e \in Pads \X ReplyCores \X Pads}

Texts == ShortTexts \cup EnvelopeTexts \cup TruncatedTexts \cup Replies

\* round trip: the names and the args mappings that are serialised
NameAlphabet == {"a", " ", "\\", "'"}
Names == Strings(NameAlphabet, MaxNameLen) \ {<<>>}
ArgKeys == {<<"k">>, <<" ", "{">>, <<"\\">>}
ArgValues == {<<"v">>, <<>>, <<" ", "}", ",">>, <<DQ>>}
ArgMaps ==
    UNION {[D -> ArgValues] : D \in {D \in SUBSET ArgKeys : Cardinality(D) <= MaxArgs}}

\* the orders in which the entries of a mapping may be written
Orders(D) ==
    {o \in [1..Cardinality(D) -> D] : \A i, j \in DOMAIN o : i # j => o[i] # o[j]}

\* "k": "v", "k": "v", ... in order o
RECURSIVE Entries(_, _)
Entries(args, o) ==
    IF o = <<>> THEN <<>>
    ELSE Entry(Quoted(DQ, Head(o)), Quoted(DQ, args[Head(o)]))
         \o (IF Len(o) > 1 THEN <<",", " ">> ELSE <<>>)
         \o Entries(args, Tail(o))

\* {"tool": "<name>", "args": {"k": "v", ...}}
Serialise(name, args, o) ==
    <<"{">> \o Entry(Quoted(DQ, TOOL), Quoted(DQ, name)) \o <<",", " ">>
    \o Entry(Quoted(DQ, ARGS), <<"{">> \o Entries(args, o) \o <<"}">>)
    \o <<"}">>

\* dispatch: the names asked for, and the keyword arguments given
ToolNames == {"echo", "add", "frobnicate"}
ParameterNames == {"a", "b", "text"}
PyValues == {PyInt(2), PyInt(3), PyStr(<<"2">>)}
Kwargs == UNION {[D -> PyValues] : D \in SUBSET ParameterNames}

-----------------------------------------------------------------------------
(* The state machines                                                       *)

NotRun == [kind |-> "none"]
NoOp == [op |-> "none", name |-> "", kind |-> "ok"]

\* the registry once noetik.tools is imported: @register_tool("echo")
ImportedRegistry == [n \in {"echo"} |-> "echo_tool"]

ParserIdle ==
    /\ name_in = <<>> /\ args_in = EmptyDict /\ src = NotRun
    /\ outcome = NotRun /\ verdict = NotRun /\ run = NotRun /\ api_call = NotRun
RegistryImported ==
    /\ TOOL_REGISTRY = ImportedRegistry /\ wrappers = {}
    /\ last_reg = NoOp /\ dispatch = NotRun /\ invoked = <<>>

registryVars == <<TOOL_REGISTRY, wrappers, last_reg, dispatch, invoked>>

\* ---- Spec: a text arrives; the parser and the classifier are run on it ----

Init ==
    /\ content \in Texts
    /\ pc = "reply"
    /\ ParserIdle /\ RegistryImported

ParseToolCall ==
    /\ pc = "reply"
    /\ outcome' = parse_tool_call(content)
    /\ UNCHANGED <<content, name_in, args_in, api_call, run, src, verdict, pc, registryVars>>

ParseResponse ==
    /\ pc = "reply"
    /\ verdict' = _parse_response(content)
    /\ UNCHANGED <<content, name_in, args_in, api_call, run, src, outcome, pc, registryVars>>

Next == ParseToolCall \/ ParseResponse

Spec == Init /\ [][Next]_vars

\* ---- SpecRoundTrip: a call is written in the envelope format and parsed ----

RoundTripInit ==
    /\ name_in \in Names
    /\ args_in \in ArgMaps
    /\ src = NotRun
    /\ content = <<>>
    /\ pc = "draw"
    /\ outcome = NotRun /\ verdict = NotRun /\ run = NotRun /\ api_call = NotRun
    /\ RegistryImported

Write ==
    /\ pc = "draw"
    /\ \E o \in Orders(DOMAIN args_in) : content' = Serialise(name_in, args_in, o)
    /\ pc' = "written"
    /\ UNCHANGED <<name_in, args_in, api_call, run, src, outcome, verdict, registryVars>>

ParseWritten ==
    /\ pc = "written"
    /\ outcome' = parse_tool_call(content)
    /\ pc' = "parsed"
    /\ UNCHANGED <<content, name_in, args_in, api_call, run, src, verdict, registryVars>>

RoundTripNext == Write \/ ParseWritten

SpecRoundTrip == RoundTripInit /\ [][RoundTripNext]_vars

\* ---- SpecDispatch: tools are registered and dispatched ----
\* last_reg, dispatch and invoked describe the most recent operation only.

DispatchInit ==
    /\ content = <<>>
    /\ pc = "dispatch"
    /\ ParserIdle /\ RegistryImported

\* d = register_tool(name)
RegisterTool(name) ==
    /\ last_reg' = register_tool(TOOL_REGISTRY, name)
    /\ wrappers' = IF last_reg'.kind = "ok" THEN wrappers \cup {name} ELSE wrappers
    /\ dispatch' = NotRun /\ invoked' = <<>>
    /\ UNCHANGED <<content, name_in, args_in, api_call, run, src, outcome, verdict, pc, TOOL_REGISTRY>>

\* d(fn) for a decorator d that register_tool(name) returned
ApplyWrapper(name, fn) ==
    /\ name \in wrappers
    /\ TOOL_REGISTRY' = wrapper(TOOL_REGISTRY, name, fn)
    /\ last_reg' = [op |-> "wrapper", name |-> name, kind |-> "ok"]
    /\ dispatch' = NotRun /\ invoked' = <<>>
    /\ UNCHANGED <<content, name_in, args_in, api_call, run, src, outcome, verdict, pc, wrappers>>

\* execute_tool(name, args), args being None when absent
ExecuteTool(name, absent, args) ==
    /\ LET r == execute_tool(TOOL_REGISTRY, name, absent, args) IN
       /\ dispatch' = [kind |-> "done", name |-> name, absent |-> absent,
                       args |-> args, result |-> r.result]
       /\ invoked' = r.calls
       /\ TOOL_REGISTRY' = r.registry
    /\ last_reg' = NoOp
    /\ UNCHANGED <<content, name_in, args_in, api_call, run, src, outcome, verdict, pc, wrappers>>

DispatchNext ==
    \/ \E name \in ToolNames : RegisterTool(name)
    \/ \E name \in ToolNames, fn \in Callables : ApplyWrapper(name, fn)
    \/ \E name \in ToolNames, args \in Kwargs : ExecuteTool(name, FALSE, args)
    \/ \E name \in ToolNames : ExecuteTool(name, TRUE, NoArgs)

SpecDispatch == DispatchInit /\ [][DispatchNext]_vars

\* ---- SpecQuoted: a string literal is written, then read back ----

\* longest content of a written string literal
MaxContent == 3

QuotedAlphabet == {"a", " ", "\"", "'", "\\", "{", "}"}

\* the delimiters: ", ', """ and '''
Delimiters == {<<DQ>>, <<SQ>>, <<DQ, DQ, DQ>>, <<SQ, SQ, SQ>>}

\* where the literal is written: alone (followed by other text), as the
\* outer "tool" value, or as a value inside args
Places == {"bare", "tool", "arg"}

\* ch as written between delimiters d: verbatim between triple quotes; after a
\* backslash when it is a backslash or the delimiter's quote (or always, when
\* every character is escaped)
EscapeChar(d, ch, every) ==
    IF Len(d) = 3 THEN <<ch>>
    ELSE IF every \/ ch = "\\" \/ ch = d[1] THEN <<"\\", ch>>
    ELSE <<ch>>

RECURSIVE Escaped(_, _, _)
Escaped(d, c, every) ==
    IF c = <<>> THEN <<>>
    ELSE EscapeChar(d, Head(c), every) \o Escaped(d, Tail(c), every)

\* the literal: delimiter, content as written, delimiter
Literal(d, c, every) == d \o Escaped(d, c, every) \o d

\* the text after a bare literal
AfterLiteral == <<" ", "\"", "'">>

\* the text the literal is written into
Placed(place, lit) ==
    CASE place = "bare" -> lit \o AfterLiteral
      [] place = "tool" ->
            <<"{">> \o Entry(Quoted(DQ, TOOL), lit) \o <<",", " ">>
            \o Entry(Quoted(DQ, ARGS), <<"{", "}">>) \o <<"}">>
      [] place = "arg" ->
            <<"{">> \o Entry(Quoted(DQ, TOOL), Quoted(DQ, <<"t">>)) \o <<",", " ">>
            \o Entry(Quoted(DQ, ARGS),
                     <<"{">> \o Entry(Quoted(DQ, <<"k">>), lit) \o <<"}">>)
            \o <<"}">>

QuotedSources ==
    {s \in [kind : {"quoted"}, delim : Delimiters,
            text : Strings(QuotedAlphabet, MaxContent),
            every : BOOLEAN, place : Places] :
        Len(s.delim) = 3 => ~s.every}

QuotedInit ==
    /\ src \in QuotedSources
    /\ content = <<>>
    /\ pc = "draw"
    /\ name_in = <<>> /\ args_in = EmptyDict
    /\ outcome = NotRun /\ verdict = NotRun /\ run = NotRun /\ api_call = NotRun
    /\ RegistryImported

WriteLiteral ==
    /\ pc = "draw"
    /\ content' = Placed(src.place, Literal(src.delim, src.text, src.every))
    /\ pc' = "written"
    /\ UNCHANGED <<name_in, args_in, api_call, run, src, outcome, verdict, registryVars>>

\* _read_quoted(content, 0) on a bare literal
ReadQuoted ==
    /\ pc = "written" /\ src.place = "bare"
    /\ outcome' = _read_quoted(content, 0)
    /\ pc' = "read"
    /\ UNCHANGED <<content, name_in, args_in, api_call, run, src, verdict, registryVars>>

\* parse_tool_call(content) on a call the literal is a value of
ParsePlaced ==
    /\ pc = "written" /\ src.place # "bare"
    /\ outcome' = parse_tool_call(content)
    /\ pc' = "read"
    /\ UNCHANGED <<content, name_in, args_in, api_call, run, src, verdict, registryVars>>

QuotedNext == WriteLiteral \/ ReadQuoted \/ ParsePlaced

SpecQuoted == QuotedInit /\ [][QuotedNext]_vars

\* ---- SpecBraces: text after a '{' is written from tokens, then scanned ----

\* most tokens written after the opening '{'
MaxTokens == 4

\* {not a dict}
NotADict == <<"{", "n", "o", "t", " ", "a", " ", "d", "i", "c", "t", "}">>

\* quoted tokens with braces in them: "\"}", '{', '''}'{''' and "{not a dict}"
QuotedTokens == {"dq", "sq", "tq", "nad"}

\* the tokens of a scanned text: '{', '}', a and three quoted tokens
ScanTokens == {"open", "close", "char", "dq", "sq", "tq"}

\* a literal that is opened and not closed: "{ and '''} ; "" for none
OpenEnds == {"", "dq_open", "tq_open"}

TokenText(tok) ==
    CASE tok = "open"  -> <<"{">>
      [] tok = "close" -> <<"}">>
      [] tok = "char"  -> <<"a">>
      [] tok = "dq"    -> <<DQ, "\\", DQ, "}", DQ>>
      [] tok = "sq"    -> <<SQ, "{", SQ>>
      [] tok = "tq"    -> <<SQ, SQ, SQ, "}", SQ, "{", SQ, SQ, SQ>>
      [] tok = "nad"   -> Quoted(DQ, NotADict)
      [] tok = "dq_open" -> <<DQ, "{">>
      [] tok = "tq_open" -> <<SQ, SQ, SQ, "}">>
      [] tok = ""      -> <<>>
      [] tok = "sp"    -> <<" ">>
      [] tok = "bs"    -> <<"\\">>
      [] tok = "comma" -> <<",">>
      [] tok = "dqc"   -> <<DQ, ",", "}", DQ>>

\* the content of a quoted token
TokenContent(tok) ==
    CASE tok = "dq"  -> <<DQ, "}">>
      [] tok = "sq"  -> <<"{">>
      [] tok = "tq"  -> <<"}", SQ, "{">>
      [] tok = "nad" -> NotADict

RECURSIVE TokensText(_)
TokensText(toks) ==
    IF toks = <<>> THEN <<>> ELSE TokenText(Head(toks)) \o TokensText(Tail(toks))

\* a scan source: '{', tokens, and possibly an unclosed literal at the end;
\* an arg source: a quoted token written as a value inside args
BraceSources ==
    [kind : {"scan"}, toks : Strings(ScanTokens, MaxTokens), last : OpenEnds]
    \cup [kind : {"arg"}, val : QuotedTokens]

BracesInit ==
    /\ src \in BraceSources
    /\ content = <<>>
    /\ pc = "draw"
    /\ name_in = <<>> /\ args_in = EmptyDict
    /\ outcome = NotRun /\ verdict = NotRun /\ run = NotRun /\ api_call = NotRun
    /\ RegistryImported

WriteBraces ==
    /\ pc = "draw"
    /\ content' = IF src.kind = "scan"
                  THEN <<"{">> \o TokensText(src.toks) \o TokenText(src.last)
                  ELSE Placed("arg", TokenText(src.val))
    /\ pc' = "written"
    /\ UNCHANGED <<name_in, args_in, api_call, run, src, outcome, verdict, registryVars>>

\* _find_matching_brace(content, 0), content starting with '{'
FindMatchingBrace ==
    /\ pc = "written" /\ src.kind = "scan"
    /\ outcome' = _find_matching_brace(content, 0)
    /\ pc' = "read"
    /\ UNCHANGED <<content, name_in, args_in, api_call, run, src, verdict, registryVars>>

\* parse_tool_call(content) on a call whose args hold the quoted token
ParseBraceValue ==
    /\ pc = "written" /\ src.kind = "arg"
    /\ outcome' = parse_tool_call(content)
    /\ pc' = "read"
    /\ UNCHANGED <<content, name_in, args_in, api_call, run, src, verdict, registryVars>>

BracesNext == WriteBraces \/ FindMatchingBrace \/ ParseBraceValue

SpecBraces == BracesInit /\ [][BracesNext]_vars

\* ---- SpecKeyOrder: a call is written with "tool" first or "args" first ----

\* longest value text drawn from Alphabet
MaxValueLen == 2

\* the source text of a value: the texts of ValueTexts, '''e''' and every short text
PairTexts ==
    ValueTexts \cup {<<SQ, SQ, SQ, "e", SQ, SQ, SQ>>} \cup Strings(Alphabet, MaxValueLen)

\* {"tool": T, "args": A} or {"args": A, "tool": T}
WrittenPair(T, A, toolFirst) ==
    IF toolFirst
    THEN <<"{">> \o Entry(Quoted(DQ, TOOL), T) \o <<",", " ">>
         \o Entry(Quoted(DQ, ARGS), A) \o <<"}">>
    ELSE <<"{">> \o Entry(Quoted(DQ, ARGS), A) \o <<",", " ">>
         \o Entry(Quoted(DQ, TOOL), T) \o <<"}">>

KeyOrderInit ==
    /\ src \in [kind : {"pair"}, tool : PairTexts, args : PairTexts, toolFirst : BOOLEAN]
    /\ content = <<>>
    /\ pc = "draw"
    /\ name_in = <<>> /\ args_in = EmptyDict
    /\ outcome = NotRun /\ verdict = NotRun /\ run = NotRun /\ api_call = NotRun
    /\ RegistryImported

WritePair ==
    /\ pc = "draw"
    /\ content' = WrittenPair(src.tool, src.args, src.toolFirst)
    /\ pc' = "written"
    /\ UNCHANGED <<name_in, args_in, api_call, run, src, outcome, verdict, registryVars>>

ParsePair ==
    /\ pc = "written"
    /\ outcome' = parse_tool_call(content)
    /\ pc' = "parsed"
    /\ UNCHANGED <<content, name_in, args_in, api_call, run, src, verdict, registryVars>>

KeyOrderNext == WritePair \/ ParsePair

SpecKeyOrder == KeyOrderInit /\ [][KeyOrderNext]_vars

\* ---- SpecInterleaved: parser and classifier runs among registry and dispatcher calls ----

\* most runs of the parser, and of the classifier, on the one text
MaxRuns == 2

\* the calls made between the runs: "add" is registered, bound and dispatched
InterleavedKwargs ==
    {NoArgs,
     [k \in {"text"} |-> PyStr(<<"2">>)],
     [k \in {"a", "b"} |-> IF k = "a" THEN PyInt(2) ELSE PyInt(3)]}

InterleavedInit ==
    /\ content \in ReplyCores
    /\ pc = "reply"
    /\ name_in = <<>> /\ args_in = EmptyDict
    /\ src = [kind |-> "runs", parser |-> 0, classifier |-> 0]
    /\ outcome = NotRun /\ verdict = NotRun /\ run = NotRun /\ api_call = NotRun
    /\ RegistryImported

\* one more run of parse_tool_call(content)
RunParser ==
    /\ src.parser < MaxRuns
    /\ outcome' = parse_tool_call(content)
    /\ src' = [src EXCEPT !.parser = @ + 1]
    /\ UNCHANGED <<content, name_in, args_in, api_call, run, verdict, pc, registryVars>>

\* one more run of _parse_response(content)
RunClassifier ==
    /\ src.classifier < MaxRuns
    /\ verdict' = _parse_response(content)
    /\ src' = [src EXCEPT !.classifier = @ + 1]
    /\ UNCHANGED <<content, name_in, args_in, api_call, run, outcome, pc, registryVars>>

InterleavedNext ==
    \/ RunParser
    \/ RunClassifier
    \/ RegisterTool("add")
    \/ \E fn \in {"_add", "_boom"} : ApplyWrapper("add", fn)
    \/ \E name \in {"echo", "add"}, args \in InterleavedKwargs : ExecuteTool(name, FALSE, args)

SpecInterleaved == InterleavedInit /\ [][InterleavedNext]_vars

\* ---- SpecDict: a dict is written entry by entry, then parsed ----

\* most entries of a written dict
MaxEntries == 2

\* key tokens: "a", 'a', "b" and the unquoted x
KeyTokens == {"dq_a", "sq_a", "dq_b", "bare_x"}
KeyTokenText(tok) ==
    CASE tok = "dq_a" -> Quoted(DQ, <<"a">>)
      [] tok = "sq_a" -> Quoted(SQ, <<"a">>)
      [] tok = "dq_b" -> Quoted(DQ, <<"b">>)
      [] tok = "bare_x" -> <<"x">>

\* what follows a key: " : ", or nothing (the colon is missing)
ColonTexts == {<<" ", ":", " ">>, <<>>}

\* value tokens: "1", {} and the raw scalar 7
ValueTokens == {"one", "dict", "raw7"}
ValueTokenText(tok) ==
    CASE tok = "one"  -> Quoted(DQ, <<"1">>)
      [] tok = "dict" -> <<"{", "}">>
      [] tok = "raw7" -> <<"7">>

\* what follows a value: a comma, a space, or nothing
AfterValueTexts == {<<",">>, <<" ">>, <<>>}

\* an entry as written; a raw scalar is always followed by a comma
DictEntries ==
    {e \in [key : KeyTokens, colon : ColonTexts, value : ValueTokens, sep : AfterValueTexts] :
        e.value = "raw7" => e.sep = <<",">>}

EntryText(e) == KeyTokenText(e.key) \o e.colon \o ValueTokenText(e.value) \o e.sep

RECURSIVE EntriesText(_)
EntriesText(es) ==
    IF es = <<>> THEN <<>> ELSE EntryText(Head(es)) \o EntriesText(Tail(es))

\* '{', the entries, and the closing '}' unless it is left out
DictText(es, closed) ==
    <<"{">> \o EntriesText(es) \o (IF closed THEN <<"}">> ELSE <<>>)

DictInit ==
    /\ src \in [kind : {"dict"}, entries : Strings(DictEntries, MaxEntries), closed : BOOLEAN]
    /\ content = <<>>
    /\ pc = "draw"
    /\ name_in = <<>> /\ args_in = EmptyDict
    /\ outcome = NotRun /\ verdict = NotRun /\ run = NotRun /\ api_call = NotRun
    /\ RegistryImported

WriteDict ==
    /\ pc = "draw"
    /\ content' = DictText(src.entries, src.closed)
    /\ pc' = "written"
    /\ UNCHANGED <<name_in, args_in, api_call, run, src, outcome, verdict, registryVars>>

ParseShallowDict ==
    /\ pc = "written"
    /\ outcome' = _parse_shallow_dict(content)
    /\ pc' = "parsed"
    /\ UNCHANGED <<content, name_in, args_in, api_call, run, src, verdict, registryVars>>

DictNext == WriteDict \/ ParseShallowDict

SpecDict == DictInit /\ [][DictNext]_vars

\* ---- SpecScalar: a raw scalar value is written from tokens, then read ----

\* most tokens of a written raw scalar and what follows it
MaxScalarTokens == 4

\* a, a space, a backslash, '{', '}', ',' and the quoted tokens ",}" and '''}'{'''
ScalarTokens == {"char", "sp", "bs", "open", "close", "comma", "dqc", "tq"}

\* whitespace before the value, the value and what follows it; the value
\* starts with neither whitespace, a quote nor '{'
ScalarSources ==
    {s \in [kind : {"scalar"}, lead : {<<>>, <<" ">>},
            toks : Strings(ScalarTokens, MaxScalarTokens)] :
        s.toks # <<>> /\ s.toks[1] \notin {"sp", "open", "dqc", "tq"}}

ScalarInit ==
    /\ src \in ScalarSources
    /\ content = <<>>
    /\ pc = "draw"
    /\ name_in = <<>> /\ args_in = EmptyDict
    /\ outcome = NotRun /\ verdict = NotRun /\ run = NotRun /\ api_call = NotRun
    /\ RegistryImported

WriteScalar ==
    /\ pc = "draw"
    /\ content' = src.lead \o TokensText(src.toks)
    /\ pc' = "written"
    /\ UNCHANGED <<name_in, args_in, api_call, run, src, outcome, verdict, registryVars>>

\* _read_value(content, 0)
ReadValue ==
    /\ pc = "written"
    /\ outcome' = _read_value(content, 0)
    /\ pc' = "read"
    /\ UNCHANGED <<content, name_in, args_in, api_call, run, src, verdict, registryVars>>

ScalarNext == WriteScalar \/ ReadValue

SpecScalar == ScalarInit /\ [][ScalarNext]_vars

\* ---- SpecNested: a dict with one nested dict value is written, then parsed ----

\* most tokens written between the braces of the nested value
MaxNested == 4

\* a, a space, a backslash, '{', '}', ',' and the quoted tokens "\"}" and '''}'{'''
NestedTokens == {"char", "sp", "bs", "open", "close", "comma", "dq", "tq"}

\* the nested value as written: '{', the tokens, '}'
NestedText(toks) == <<"{">> \o TokensText(toks) \o <<"}">>

NestedInit ==
    /\ src \in [kind : {"nested"}, toks : Strings(NestedTokens, MaxNested)]
    /\ content = <<>>
    /\ pc = "draw"
    /\ name_in = <<>> /\ args_in = EmptyDict
    /\ outcome = NotRun /\ verdict = NotRun /\ run = NotRun /\ api_call = NotRun
    /\ RegistryImported

\* {"k": <nested> }
WriteNested ==
    /\ pc = "draw"
    /\ content' = <<"{">> \o Entry(Quoted(DQ, <<"k">>), NestedText(src.toks)) \o <<" ", "}">>
    /\ pc' = "written"
    /\ UNCHANGED <<name_in, args_in, api_call, run, src, outcome, verdict, registryVars>>

ParseNested ==
    /\ pc = "written"
    /\ outcome' = _parse_shallow_dict(content)
    /\ pc' = "parsed"
    /\ UNCHANGED <<content, name_in, args_in, api_call, run, src, verdict, registryVars>>

NestedNext == WriteNested \/ ParseNested

SpecNested == NestedInit /\ [][NestedNext]_vars

\* ---- SpecTriple: text with an opening triple quote in it is written, then read ----

\* most characters written before the opening triple quote, and after it
MaxBefore == 2
MaxAfter == 4

TripleAlphabet == {"a", "\"", "'", "\\"}

TripleInit ==
    /\ src \in [kind : {"triple"}, before : Strings({"a", "\"", "'"}, MaxBefore),
                quote : _QUOTE_SET, after : Strings(TripleAlphabet, MaxAfter)]
    /\ content = <<>>
    /\ pc = "draw"
    /\ name_in = <<>> /\ args_in = EmptyDict
    /\ outcome = NotRun /\ verdict = NotRun /\ run = NotRun /\ api_call = NotRun
    /\ RegistryImported

WriteTriple ==
    /\ pc = "draw"
    /\ content' = src.before \o <<src.quote, src.quote, src.quote>> \o src.after
    /\ pc' = "written"
    /\ UNCHANGED <<name_in, args_in, api_call, run, src, outcome, verdict, registryVars>>

\* _read_quoted(content, i), i being the index of the opening triple quote
ReadTriple ==
    /\ pc = "written"
    /\ outcome' = _read_quoted(content, Len(src.before))
    /\ pc' = "read"
    /\ UNCHANGED <<content, name_in, args_in, api_call, run, src, verdict, registryVars>>

TripleNext == WriteTriple \/ ReadTriple

SpecTriple == TripleInit /\ [][TripleNext]_vars

\* ---- SpecSteps: parse_tool_call run one loop iteration at a time ----
\* run holds the text s being scanned (the reply, then the args text), the scan
\* index i, and a stack of frames, one per active loop, innermost last.  A
\* frame keeps its loop's locals and at, the index its current iteration began
\* with.  completed lists the iterations the last step finished, each with the
\* index it began with and the index it left.

\* longest text drawn from Alphabet that is run step by step
MaxStepLen == 3

Frame(kind, at) ==
    [kind |-> kind, at |-> at, dict |-> EmptyDict, key |-> <<>>, phase |-> "",
     quote |-> <<>>, out |-> <<>>, esc |-> FALSE, depth |-> 0, start |-> 0]

Top(stack) == stack[Len(stack)]
Pop(stack) == SubSeq(stack, 1, Len(stack) - 1)
SetTop(stack, f) == [stack EXCEPT ![Len(stack)] = f]

\* raise, or the final return of parse_tool_call
Halt(r, result) ==
    [r EXCEPT !.status = "done", !.result = result, !.stack = <<>>, !.completed = {}]

\* i += ...; the loop of the top frame, with locals f, goes round again
NextIteration(r, f, i1) ==
    [r EXCEPT !.i = i1,
              !.stack = SetTop(r.stack, [f EXCEPT !.at = i1]),
              !.completed = {[loop |-> f.kind, from |-> f.at, to |-> i1]}]

\* a call of _read_quoted(s, i) above the frames of stack: lines 36-42, 51-56
EnterQuoted(r, stack, i) ==
    IF i + 2 < Len(r.s)
       /\ Slice(r.s, i, i + 3) \in {<<"'", "'", "'">>, <<"\"", "\"", "\"">>}
    THEN [r EXCEPT !.i = i + 3,
                   !.stack = Append(stack, [Frame("triple", i + 3) EXCEPT
                                               !.quote = Slice(r.s, i, i + 3),
                                               !.start = i + 3]),
                   !.completed = {}]
    ELSE IF i >= Len(r.s) THEN Halt(r, RaiseIndexError(i))
    ELSE IF At(r.s, i) \notin _QUOTE_SET
    THEN Halt(r, Raise("expected quote at pos {i}", i, <<>>))
    ELSE [r EXCEPT !.i = i + 1,
                   !.stack = Append(stack, [Frame("quoted", i + 1) EXCEPT
                                               !.quote = <<At(r.s, i)>>]),
                   !.completed = {}]

\* _read_key after its _read_quoted returned (key, i0), lines 95-98, and the
\* start of _read_value, lines 102-114
AfterKey(r, stack, key, i0) ==
    Let(_skip_ws(r.s, i0), LAMBDA j :
    IF j >= Len(r.s) \/ At(r.s, j) # ":"
    THEN Halt(r, Raise("missing ':' after key {key!r}", -1, key))
    ELSE Let(_skip_ws(r.s, j + 1), LAMBDA i :
         Let(SetTop(stack, [Top(stack) EXCEPT !.key = key, !.phase = "value"]), LAMBDA stack1 :
         IF i >= Len(r.s)
         THEN Halt(r, Raise("unexpected end of input while reading value", -1, <<>>))
         ELSE IF At(r.s, i) \in _QUOTE_SET THEN EnterQuoted(r, stack1, i)
         ELSE [r EXCEPT !.i = i,
                        !.stack = Append(stack1,
                                         [Frame(IF At(r.s, i) = "{" THEN "brace" ELSE "scan", i)
                                             EXCEPT !.start = i]),
                        !.completed = {}])))

\* _parse_shallow_dict after _read_value returned (val, i0), lines 147-150
AfterValue(r, stack, val, i0) ==
    Let(_skip_ws(r.s, i0), LAMBDA j :
    Let(IF j < Len(r.s) /\ At(r.s, j) = "," THEN j + 1 ELSE j, LAMBDA i1 :
    Let(Top(stack), LAMBDA f :
        [r EXCEPT !.i = i1,
                  !.stack = SetTop(stack, [f EXCEPT !.dict = DictSet(f.dict, f.key, val),
                                                    !.key = <<>>, !.phase = "", !.at = i1]),
                  !.completed = {[loop |-> "dict", from |-> f.at, to |-> i1]}])))

\* the loop of the top frame returns (val, i1) to the frame below it
Return(r, val, i1) ==
    Let(Pop(r.stack), LAMBDA stack :
    Let(Top(stack), LAMBDA caller :
        IF caller.kind \in {"brace", "scan"}
        THEN \* _, i = _read_quoted(s, i); continue
             NextIteration([r EXCEPT !.stack = stack], caller, i1)
        ELSE IF caller.phase = "key" THEN AfterKey(r, stack, val, i1)
        ELSE AfterValue(r, stack, val, i1)))

\* _parse_shallow_dict(s) up to its loop, lines 134-138
BeginDict(s, level, tool) ==
    Let(_skip_ws(s, 0), LAMBDA i :
    Let([status |-> "running", s |-> s, i |-> i, stack |-> <<>>, completed |-> {},
         result |-> NotRun, level |-> level, tool |-> tool], LAMBDA r :
        IF i >= Len(s) \/ At(s, i) # "{"
        THEN Halt(r, Raise("dict must start with '{'", -1, <<>>))
        ELSE [r EXCEPT !.i = i + 1, !.stack = <<Frame("dict", i + 1)>>]))

\* _parse_shallow_dict returned out: lines 166-181 for the outer dict, and the
\* return of line 181 for the args dict
DictReturns(r, out) ==
    IF r.level = "args" THEN Halt(r, Envelope(r.tool, out))
    ELSE IF TOOL \notin DOMAIN out \/ ARGS \notin DOMAIN out
    THEN Halt(r, Raise("both 'tool' and 'args' keys are required", -1, <<>>))
    ELSE Let(Strip(out[TOOL]), LAMBDA tool_val :
         Let(Strip(out[ARGS]), LAMBDA args_raw :
             IF tool_val = <<>> THEN Halt(r, Raise("'tool' name is empty", -1, <<>>))
             ELSE IF ~StartsWith(args_raw, <<"{">>)
             THEN Halt(r, Raise("'args' must start with '{'", -1, <<>>))
             ELSE BeginDict(args_raw, "args", tool_val)))

\* one iteration of the while True loop of _parse_shallow_dict up to the call
\* of _read_quoted in _read_key: lines 140-145 and 91-94
DictStep(r) ==
    Let(_skip_ws(r.s, r.i), LAMBDA i :
    IF i >= Len(r.s) THEN Halt(r, Raise("unexpected end of input in dict", -1, <<>>))
    ELSE IF At(r.s, i) = "}" THEN DictReturns(r, Top(r.stack).dict)
    ELSE IF At(r.s, i) \notin _QUOTE_SET
    THEN Halt(r, Raise("dict key at pos {i} must be quoted", i, <<>>))
    ELSE EnterQuoted(r, SetTop(r.stack, [Top(r.stack) EXCEPT !.phase = "key"]), i))

\* one iteration of the loop of lines 57-69
QuotedStep(r) ==
    Let(Top(r.stack), LAMBDA f :
    IF r.i < Len(r.s)
    THEN Let(At(r.s, r.i), LAMBDA ch :
         IF f.esc
         THEN NextIteration(r, [f EXCEPT !.out = Append(@, ch), !.esc = FALSE], r.i + 1)
         ELSE IF ch = "\\" THEN NextIteration(r, [f EXCEPT !.esc = TRUE], r.i + 1)
         ELSE IF <<ch>> = f.quote THEN Return(r, f.out, r.i + 1)
         ELSE NextIteration(r, [f EXCEPT !.out = Append(@, ch)], r.i + 1))
    ELSE Halt(r, Raise("unterminated string literal", -1, <<>>)))

\* one iteration of the loop of lines 44-48
TripleStep(r) ==
    Let(Top(r.stack), LAMBDA f :
    IF r.i + 2 < Len(r.s)
    THEN IF Slice(r.s, r.i, r.i + 3) = f.quote
         THEN Return(r, Slice(r.s, f.start, r.i), r.i + 3)
         ELSE NextIteration(r, f, r.i + 1)
    ELSE Halt(r, Raise("unterminated triple-quoted string", -1, <<>>)))

\* one iteration of the loop of _find_matching_brace, lines 75-87; on return
\* _read_value returns s[i:j], j (line 110)
BraceStep(r) ==
    Let(Top(r.stack), LAMBDA f :
    IF r.i < Len(r.s)
    THEN Let(At(r.s, r.i), LAMBDA ch :
         IF ch = "{" THEN NextIteration(r, [f EXCEPT !.depth = @ + 1], r.i + 1)
         ELSE IF ch = "}"
              THEN IF f.depth - 1 = 0
                   THEN Return(r, Slice(r.s, f.start, r.i + 1), r.i + 1)
                   ELSE NextIteration(r, [f EXCEPT !.depth = @ - 1], r.i + 1)
         ELSE IF ch \in _QUOTE_SET THEN EnterQuoted(r, r.stack, r.i)
         ELSE NextIteration(r, f, r.i + 1))
    ELSE Halt(r, Raise("unbalanced braces", -1, <<>>)))

\* the raw-scalar loop with a backslash handled by  continue  before  i += 1
ScanStep_stuckOnBackslash(r) ==
    Let(Top(r.stack), LAMBDA f :
    IF r.i < Len(r.s)
    THEN Let(At(r.s, r.i), LAMBDA ch :
         IF ch \in _QUOTE_SET THEN EnterQuoted(r, r.stack, r.i)
         ELSE IF ch = "\\" THEN NextIteration(r, f, r.i)
         ELSE IF ch = "{" THEN NextIteration(r, [f EXCEPT !.depth = @ + 1], r.i + 1)
         ELSE IF ch = "}"
              THEN IF f.depth = 0
                   THEN Return(r, Strip(Slice(r.s, f.start, r.i)), r.i)
                   ELSE NextIteration(r, [f EXCEPT !.depth = @ - 1], r.i + 1)
         ELSE IF ch = "," /\ f.depth = 0
              THEN Return(r, Strip(Slice(r.s, f.start, r.i)), r.i)
         ELSE NextIteration(r, f, r.i + 1))
    ELSE Return(r, Strip(Slice(r.s, f.start, r.i)), r.i))

\* one iteration of the raw-scalar loop of _read_value, lines 115-129
ScanStep(r) ==
    Let(Top(r.stack), LAMBDA f :
    IF r.i < Len(r.s)
    THEN Let(At(r.s, r.i), LAMBDA ch :
         IF ch \in _QUOTE_SET THEN EnterQuoted(r, r.stack, r.i)
         ELSE IF ch = "{" THEN NextIteration(r, [f EXCEPT !.depth = @ + 1], r.i + 1)
         ELSE IF ch = "}"
              THEN IF f.depth = 0
                   THEN Return(r, Strip(Slice(r.s, f.start, r.i)), r.i)
                   ELSE NextIteration(r, [f EXCEPT !.depth = @ - 1], r.i + 1)
         ELSE IF ch = "," /\ f.depth = 0
              THEN Return(r, Strip(Slice(r.s, f.start, r.i)), r.i)
         ELSE NextIteration(r, f, r.i + 1))
    ELSE Return(r, Strip(Slice(r.s, f.start, r.i)), r.i))

\* the next iteration of the innermost active loop
Step(r) ==
    CASE Top(r.stack).kind = "dict"   -> DictStep(r)
      [] Top(r.stack).kind = "quoted" -> QuotedStep(r)
      [] Top(r.stack).kind = "triple" -> TripleStep(r)
      [] Top(r.stack).kind = "brace"  -> BraceStep(r)
      [] Top(r.stack).kind = "scan"   -> ScanStep(r)

\* raw scalars with quoted spans and braces in them, a nested dict with a
\* quoted brace, triple-quoted values, and texts that never close
StepExtras ==
    {<<"{">> \o Entry(Quoted(DQ, TOOL), <<"7", SQ, ",", "\\", SQ, SQ, "{", ",", "}", " ">>)
        \o <<",">> \o Entry(Quoted(DQ, ARGS),
                            <<"{">> \o Entry(Quoted(SQ, <<"k">>), <<"{", DQ, "}", DQ, "}">>)
                            \o <<",", " ">> \o Entry(Quoted(DQ, <<"r">>), <<"x", "\\", ",", "y">>)
                            \o <<"}">>)
        \o <<"}">>,
     <<"{">> \o Entry(Quoted(DQ, TOOL), <<SQ, SQ, SQ, "e", SQ, SQ, SQ, SQ>>)
        \o Entry(Quoted(DQ, ARGS), <<DQ, DQ, DQ, " ", "{", "}", DQ, DQ, DQ>>) \o <<"}">>,
     <<"{">> \o Entry(Quoted(DQ, TOOL), <<"x", "{", "{", SQ, SQ, SQ, "}">>),
     <<"{">> \o Entry(Quoted(DQ, TOOL), <<"{", "{", "a", "}", DQ, "\\">>)}

StepTexts ==
    Strings(Alphabet, MaxStepLen) \cup EnvelopeTexts \cup TruncatedTexts
    \cup ReplyCores \cup StepExtras

StepsInit ==
    /\ content \in StepTexts
    /\ pc = "reply"
    /\ ParserIdle /\ RegistryImported

\* parse_tool_call(content) is called
StartParse ==
    /\ run = NotRun /\ api_call = NotRun
    /\ run' = BeginDict(content, "top", <<>>)
    /\ UNCHANGED <<content, name_in, args_in, api_call, src, outcome, verdict, pc, registryVars>>

\* the innermost active loop makes one iteration
ParserStep ==
    /\ run # NotRun /\ run.status = "running"
    /\ run' = Step(run)
    /\ UNCHANGED <<content, name_in, args_in, api_call, src, outcome, verdict, pc, registryVars>>

StepsNext == StartParse \/ ParserStep

\* the interpreter keeps running the one thread that called parse_tool_call
SpecSteps == StepsInit /\ [][StepsNext]_vars /\ WF_vars(StepsNext)

\* ---- SpecTrailing: an accepted call is written with text after its closing brace ----

\* longest text written after the closing brace
MaxSuffix == 2

\* the texts of the input sets that parse_tool_call accepts
AcceptedTexts ==
    {t \in EnvelopeTexts \cup ReplyCores \cup StepExtras : parse_tool_call(t).kind = "ok"}

\* t up to and including the '}' at which the loop of _parse_shallow_dict returned
ClosedText(t) == Slice(t, 0, _parse_shallow_dict(t).i + 1)

TrailingInit ==
    /\ src \in [kind : {"trailing"}, text : AcceptedTexts, suffix : Strings(Alphabet, MaxSuffix)]
    /\ content = <<>>
    /\ pc = "draw"
    /\ name_in = <<>> /\ args_in = EmptyDict
    /\ outcome = NotRun /\ verdict = NotRun /\ run = NotRun /\ api_call = NotRun
    /\ RegistryImported

WriteTrailing ==
    /\ pc = "draw"
    /\ content' = ClosedText(src.text) \o src.suffix
    /\ pc' = "written"
    /\ UNCHANGED <<name_in, args_in, api_call, run, src, outcome, verdict, registryVars>>

ParseTrailing ==
    /\ pc = "written"
    /\ outcome' = parse_tool_call(content)
    /\ pc' = "parsed"
    /\ UNCHANGED <<content, name_in, args_in, api_call, run, src, verdict, registryVars>>

TrailingNext == WriteTrailing \/ ParseTrailing

SpecTrailing == TrailingInit /\ [][TrailingNext]_vars

\* ---- SpecArgsForm: the args of a call are written unquoted or as a string ----

\* what is written as args: {}, {"k": "v"}, {'k': 'v'}, {"k": 7}, {} between
\* spaces, the word x, a space, a lone '{', and {} followed by x
InnerTokens == {"empty", "kv", "kv_sq", "raw", "pad", "word", "blank", "open", "junk"}
InnerText(tok) ==
    CASE tok = "empty" -> <<"{", "}">>
      [] tok = "kv"    -> <<"{">> \o Entry(Quoted(DQ, <<"k">>), Quoted(DQ, <<"v">>)) \o <<"}">>
      [] tok = "kv_sq" -> <<"{">> \o Entry(Quoted(SQ, <<"k">>), Quoted(SQ, <<"v">>)) \o <<"}">>
      [] tok = "raw"   -> <<"{">> \o Entry(Quoted(DQ, <<"k">>), <<"7">>) \o <<"}">>
      [] tok = "pad"   -> <<" ", "{", "}", " ">>
      [] tok = "word"  -> <<"x">>
      [] tok = "blank" -> <<" ">>
      [] tok = "open"  -> <<"{">>
      [] tok = "junk"  -> <<"{", "}", "x">>

\* how it is written: as it is, or as the content of a "...", '...' or '''...''' literal
ArgsForms == {"nested", "dq", "sq", "tq"}
ArgsWritten(form, c) ==
    CASE form = "nested" -> c
      [] form = "dq" -> Literal(<<DQ>>, c, FALSE)
      [] form = "sq" -> Literal(<<SQ>>, c, FALSE)
      [] form = "tq" -> Literal(<<SQ, SQ, SQ>>, c, FALSE)

ArgsFormInit ==
    /\ src \in [kind : {"argsform"}, inner : InnerTokens, form : ArgsForms,
                every : BOOLEAN, toolFirst : BOOLEAN]
    /\ content = <<>>
    /\ pc = "draw"
    /\ name_in = <<>> /\ args_in = EmptyDict
    /\ outcome = NotRun /\ verdict = NotRun /\ run = NotRun /\ api_call = NotRun
    /\ RegistryImported

\* {"tool": "t", "args": <args>} or {"args": <args>, "tool": "t"}; with every,
\* each character of a '...' or "..." literal is written after a backslash
WriteArgsForm ==
    /\ pc = "draw"
    /\ content' = WrittenPair(Quoted(DQ, <<"t">>),
                              IF src.every /\ src.form \in {"dq", "sq"}
                              THEN Literal(IF src.form = "dq" THEN <<DQ>> ELSE <<SQ>>,
                                           InnerText(src.inner), TRUE)
                              ELSE ArgsWritten(src.form, InnerText(src.inner)),
                              src.toolFirst)
    /\ pc' = "written"
    /\ UNCHANGED <<name_in, args_in, api_call, run, src, outcome, verdict, registryVars>>

ParseArgsForm ==
    /\ pc = "written"
    /\ outcome' = parse_tool_call(content)
    /\ pc' = "parsed"
    /\ UNCHANGED <<content, name_in, args_in, api_call, run, src, verdict, registryVars>>

ArgsFormNext == WriteArgsForm \/ ParseArgsForm

SpecArgsForm == ArgsFormInit /\ [][ArgsFormNext]_vars

\* ---- SpecClient: client/cli.py posts to the API, retrying refused connections ----

\* the largest max_retries a caller passes
MaxRetries == 3

\* a JSON object as Python reads it
Dict(items) == [type |-> "dict", items |-> items]

\* what the API answers: SessionResponse, MessageResponse, and the body of
\* an HTTPException(status_code, detail)
SessionBody == Dict([session_id |-> "s1"])
MessageBody == Dict([reply |-> "hi", tool_results |-> <<>>, session_id |-> "s1"])
DetailBody == Dict([detail |-> "Message cannot be empty"])

\* bodies an error answer can carry: JSON objects with or without "detail",
\* a JSON array, and text that is not JSON (a proxy's error page)
ErrorBodies ==
    {DetailBody, Dict([error |-> "x"]), [type |-> "list"], [type |-> "invalid"]}

Endpoints == {"/sessions", "/agent"}

\* a local name no assignment has bound yet, and an httpx.Response
Unbound == [bound |-> FALSE]
Response(status, body) == [bound |-> TRUE, status |-> status, body |-> body]

\* the 2xx body of an endpoint
SuccessBody(endpoint) == IF endpoint = "/sessions" THEN SessionBody ELSE MessageBody

\* what lines 55-56 can do: the POST is answered 2xx; the connection is
\* refused; the request times out; raise_for_status rejects a 4xx/5xx answer
PostOutcomes(endpoint) ==
    {[exc |-> "none", response |-> Response(200, SuccessBody(endpoint))]}
    \cup {[exc |-> e, response |-> Unbound] : e \in {"ConnectError", "ReadTimeout"}}
    \cup {[exc |-> "HTTPStatusError", response |-> Response(st, b)] :
            st \in {400, 500}, b \in ErrorBodies}

\* the subclasses of httpx.HTTPError among them
HTTPErrors == {"ConnectError", "ReadTimeout", "HTTPStatusError"}

Returns(value) == [kind |-> "return", value |-> value]
Raises(exc) == [kind |-> "raise", exc |-> exc]

\* line 60: is this failure retried
Retries_anyError(e, attempt, max_retries) == attempt < max_retries - 1
Retries(e, attempt, max_retries) ==
    e = "ConnectError" /\ attempt < max_retries - 1

\* lines 75-81: the error text; reading response.json() raises when response
\* was never bound or its body is not JSON, "detail" in error_data raises or
\* is false for other bodies, and except Exception swallows all of that
ErrorMsg(e, response) ==
    IF response.bound /\ response.body.type = "dict"
       /\ "detail" \in DOMAIN response.body.items
    THEN <<"API error: ", response.body.items.detail>>
    ELSE <<"Error connecting to API: ", e>>

\* call_api(endpoint, data, max_retries) is entered
CallApi ==
    /\ pc = "client" /\ api_call = NotRun
    /\ \E endpoint \in Endpoints, max_retries \in 0..MaxRetries :
         api_call' = [kind |-> "call", endpoint |-> endpoint,
                      max_retries |-> max_retries, at |-> "for", attempt |-> 0,
                      posts |-> <<>>, e |-> "none", response |-> Unbound,
                      slept |-> <<>>, result |-> NotRun]
    /\ UNCHANGED <<content, name_in, args_in, src, run, outcome, verdict, pc, registryVars>>

\* line 52: range(max_retries) yields the next attempt, or is exhausted and
\* lines 86-88 return
ForAttempt ==
    /\ pc = "client" /\ api_call.kind = "call" /\ api_call.at = "for"
    /\ api_call' =
         IF api_call.attempt < api_call.max_retries
         THEN [api_call EXCEPT !.at = "try"]
         ELSE [api_call EXCEPT !.at = "done",
                 !.result = Returns(Dict([reply |->
                     <<"Failed to connect to API after ", api_call.max_retries,
                       " attempts">>]))]
    /\ UNCHANGED <<content, name_in, args_in, src, run, outcome, verdict, pc, registryVars>>

\* lines 54-56: one POST; response is bound only when the POST is answered
Post ==
    /\ pc = "client" /\ api_call.kind = "call" /\ api_call.at = "try"
    /\ \E o \in PostOutcomes(api_call.endpoint) :
         api_call' = [api_call EXCEPT
                        !.posts = Append(@, o.exc),
                        !.e = o.exc,
                        !.response = IF o.response.bound THEN o.response ELSE @,
                        !.at = "posted"]
    /\ UNCHANGED <<content, name_in, args_in, src, run, outcome, verdict, pc, registryVars>>

\* lines 57-83: return the body, or sleep and continue, or return the error;
\* slept counts each retry_delay in half seconds
Handle ==
    /\ pc = "client" /\ api_call.kind = "call" /\ api_call.at = "posted"
    /\ api_call' =
         IF api_call.e = "none"
         THEN [api_call EXCEPT !.at = "done", !.result = Returns(api_call.response.body)]
         ELSE IF api_call.e \notin HTTPErrors
         THEN [api_call EXCEPT !.at = "done", !.result = Raises(api_call.e)]
         ELSE IF Retries(api_call.e, api_call.attempt, api_call.max_retries)
         THEN [api_call EXCEPT !.at = "for", !.attempt = @ + 1,
                               !.slept = Append(@, 2 ^ api_call.attempt)]
         ELSE [api_call EXCEPT !.at = "done",
                 !.result = Returns(Dict([reply |->
                     ErrorMsg(api_call.e, api_call.response)]))]
    /\ UNCHANGED <<content, name_in, args_in, src, run, outcome, verdict, pc, registryVars>>

ClientInit ==
    /\ content = <<>>
    /\ pc = "client"
    /\ ParserIdle /\ RegistryImported

ClientNext == CallApi \/ ForAttempt \/ Post \/ Handle

SpecClient == ClientInit /\ [][ClientNext]_vars /\ WF_vars(ClientNext)

-----------------------------------------------------------------------------
(* The claims                                                               *)

\* no character of s is in S
NoneOf(s, S) == \A i \in DOMAIN s : s[i] \notin S

\* the characters that are special inside a quoted string
SpecialChars == {"\"", "'", "\\"}

\* string keys and scalar string values with no special characters
PlainArgs(args) ==
    \A k \in DOMAIN args : NoneOf(k, SpecialChars) /\ NoneOf(args[k], SpecialChars)

\* C1 as stated: every non-empty name without quote characters and every
\* plain args mapping, written as {"tool": "<name>", "args": {"k": "v", ...}},
\* parse back to exactly {tool: name, args: args}.
C1_RoundTripAnyName ==
    (/\ pc = "parsed"
     /\ name_in # <<>> /\ NoneOf(name_in, _QUOTE_SET)
     /\ PlainArgs(args_in))
    => outcome = Envelope(name_in, args_in)

\* the names the round trip holds for: non-empty, no quote, no backslash, and
\* no whitespace at either end
TrimmedPlainName(name) ==
    /\ name # <<>>
    /\ NoneOf(name, SpecialChars)
    /\ Strip(name) = name

\* C1 amended: the round trip holds for every plain args mapping and every
\* non-empty name that has no quote, no backslash and no leading or trailing
\* whitespace.
C1_RoundTrip ==
    (pc = "parsed" /\ TrimmedPlainName(name_in) /\ PlainArgs(args_in))
    => outcome = Envelope(name_in, args_in)

\* a two-character name and two entries with a brace and a comma in them came back
C1_Witness ==
    /\ pc = "parsed"
    /\ TrimmedPlainName(name_in) /\ Len(name_in) = 2
    /\ PlainArgs(args_in)
    /\ DOMAIN args_in = {<<"k">>, <<" ", "{">>}
    /\ args_in[<<"k">>] = <<" ", "}", ",">>
    /\ outcome = Envelope(name_in, args_in)

\* C2: on every text parse_tool_call returns a {tool, args} record or raises
\* ToolCallParseError; no IndexError (or any other failure) escapes.
C2_Total ==
    outcome.kind # "none" =>
        \/ outcome.kind = ToolCallParseError
        \/ /\ outcome.kind = "ok"
           /\ DOMAIN outcome = {"kind", "tool", "args"}
           /\ Len(outcome.tool) > 0

\* the text {"a" ends right after a key, and the parser reported it
C2_Witness ==
    /\ content = <<"{", DQ, "a", DQ>>
    /\ outcome.kind = ToolCallParseError
    /\ outcome.msg = "missing ':' after key {key!r}"
    /\ outcome.key = <<"a">>

\* the number of whitespace characters c starts with, and ends with
LeadingSpace(c) ==
    CHOOSE a \in 0..Len(c) :
        /\ \A k \in 1..a : c[k] \in PyWhitespace
        /\ a < Len(c) => c[a + 1] \notin PyWhitespace
TrailingSpace(c) ==
    CHOOSE b \in 0..Len(c) :
        /\ \A k \in (Len(c) - b + 1)..Len(c) : c[k] \in PyWhitespace
        /\ b < Len(c) => c[Len(c) - b] \notin PyWhitespace

\* c without its leading and trailing whitespace
Trimmed(c) ==
    IF LeadingSpace(c) = Len(c) THEN <<>>
    ELSE SubSeq(c, LeadingSpace(c) + 1, Len(c) - TrailingSpace(c))

\* s begins with the answer prefix
HasAnswerPrefix(s) ==
    /\ Len(s) >= Len(llm_answer_prefix)
    /\ SubSeq(s, 1, Len(llm_answer_prefix)) = llm_answer_prefix

\* s begins with '{', a quoted "tool" key and ':', whitespace allowed between them
HasToolKeyPrefix(s) ==
    /\ Len(s) >= 8
    /\ s[1] = "{"
    /\ \E i \in 2..(Len(s) - 6) :
        /\ s[i] \in {DQ, SQ}
        /\ SubSeq(s, i + 1, i + 4) = TOOL
        /\ s[i + 5] = s[i]
        /\ \A k \in 2..(i - 1) : s[k] \in PyWhitespace
        /\ \E j \in (i + 6)..Len(s) :
            /\ s[j] = ":"
            /\ \A k \in (i + 6)..(j - 1) : s[k] \in PyWhitespace

\* clause (1): the answer prefix gives the trimmed remainder as the answer
RoutesAnswer(s) ==
    HasAnswerPrefix(s) =>
        /\ verdict.tool_calls = <<>>
        /\ verdict.answer = Plain(Trimmed(SubSeq(s, Len(llm_answer_prefix) + 1, Len(s))))

\* clause (2): a tool-call-shaped reply that parses to d gives exactly that call
RoutesToolCall(s, d) ==
    (~HasAnswerPrefix(s) /\ HasToolKeyPrefix(s) /\ d.kind = "ok") =>
        /\ verdict.tool_calls = <<[name |-> d.tool, args |-> d.args]>>
        /\ verdict.answer = None

\* C3 as stated: (1) the answer prefix, (2) a tool-call-shaped reply that
\* parses, (3) every other reply comes back trimmed and unchanged as the answer.
C3_RoutingElseUnchanged ==
    verdict.kind = "ok" =>
        \A s \in {Trimmed(content)} : \A d \in {parse_tool_call(s)} :
            /\ RoutesAnswer(s)
            /\ RoutesToolCall(s, d)
            /\ (~HasAnswerPrefix(s) /\ ~(HasToolKeyPrefix(s) /\ d.kind = "ok"))
               => verdict = Verdict(<<>>, Plain(s))

\* C3 amended: (1) and (2) as stated; (3) a reply with neither the answer
\* prefix nor the tool-call shape comes back trimmed and unchanged as the answer.
C3_Routing ==
    verdict.kind = "ok" =>
        \A s \in {Trimmed(content)} : \A d \in {parse_tool_call(s)} :
            /\ RoutesAnswer(s)
            /\ RoutesToolCall(s, d)
            /\ (~HasAnswerPrefix(s) /\ ~HasToolKeyPrefix(s))
               => verdict = Verdict(<<>>, Plain(s))

\* the reply "\nAnswer: 42 " was classified as the answer "42"
C3_Witness ==
    /\ content = <<"\n">> \o llm_answer_prefix \o <<" ", "4", "2", " ">>
    /\ verdict = Verdict(<<>>, Plain(<<"4", "2">>))

\* C4: a reply with the tool-call shape that parse_tool_call rejects gives no
\* tool call and a text holding the trimmed reply and the parse error's detail.
C4_ParseFailureShown ==
    verdict.kind = "ok" =>
        \A s \in {Trimmed(content)} : \A d \in {parse_tool_call(s)} :
            (~HasAnswerPrefix(s) /\ HasToolKeyPrefix(s) /\ d.kind = ToolCallParseError)
            => /\ verdict.tool_calls = <<>>
               /\ verdict.answer # None
               /\ verdict.answer.text = s
               /\ verdict.answer.err = d

\* the reply {"tool": "echo"} was answered with its text and the missing-keys error
C4_Witness ==
    /\ content = <<"{">> \o Quoted(DQ, TOOL) \o <<":", " ">> \o Quoted(DQ, <<"e", "c", "h", "o">>) \o <<"}">>
    /\ verdict.kind = "ok"
    /\ verdict.tool_calls = <<>>
    /\ verdict.answer.text = content
    /\ verdict.answer.err.msg = "both 'tool' and 'args' keys are required"

\* the keyword arguments of the last dispatch (absent args are the empty mapping)
GivenArgs == IF dispatch.absent THEN NoArgs ELSE dispatch.args

\* the last operation was execute_tool on a registered / an unregistered name
DispatchedRegistered == dispatch.kind = "done" /\ dispatch.name \in DOMAIN TOOL_REGISTRY
DispatchedUnknown == dispatch.kind = "done" /\ dispatch.name \notin DOMAIN TOOL_REGISTRY

\* C5: dispatching a name that is not in the registry fails with the
\* unknown-tool ToolExecutionError naming it, whatever the args, and calls nothing.
C5_UnknownTool ==
    DispatchedUnknown =>
        /\ dispatch.result.kind = ToolExecutionError
        /\ dispatch.result.msg = "Tool '{name}' is not registered."
        /\ dispatch.result.name = dispatch.name
        /\ invoked = <<>>

\* "frobnicate" with args was dispatched against a registry holding only "echo"
C5_Witness ==
    /\ DispatchedUnknown
    /\ dispatch.name = "frobnicate" /\ DOMAIN TOOL_REGISTRY = {"echo"}
    /\ DOMAIN GivenArgs = {"text"}
    /\ dispatch.result.kind = ToolExecutionError

\* the key set of the given args differs from the callable's parameters
KeysMisfit == DOMAIN GivenArgs # Parameters(TOOL_REGISTRY[dispatch.name])

\* C6: a registered tool given args whose keys do not fit its parameters fails
\* with "Invalid arguments for tool ...", the detail being the mismatch
\* message about a missing or unexpected name, and the body is not run.
C6_ArgumentMismatch ==
    (DispatchedRegistered /\ KeysMisfit) =>
        /\ dispatch.result.kind = ToolExecutionError
        /\ dispatch.result.msg = "Invalid arguments for tool '{name}': {exc}"
        /\ dispatch.result.name = dispatch.name
        /\ \/ /\ dispatch.result.detail = "got an unexpected keyword argument"
              /\ dispatch.result.arg \in DOMAIN GivenArgs \ Parameters(TOOL_REGISTRY[dispatch.name])
           \/ /\ dispatch.result.detail = "missing required positional argument"
              /\ dispatch.result.arg \in Parameters(TOOL_REGISTRY[dispatch.name]) \ DOMAIN GivenArgs
        /\ Len(invoked) = 1 /\ ~invoked[1].ran

\* "add" (requiring a and b) was dispatched with only a, and b was reported missing
C6_Witness ==
    /\ DispatchedRegistered /\ KeysMisfit
    /\ dispatch.name = "add" /\ TOOL_REGISTRY["add"] = "_add"
    /\ DOMAIN GivenArgs = {"a"}
    /\ dispatch.result.msg = "Invalid arguments for tool '{name}': {exc}"
    /\ dispatch.result.arg = "b"

\* the given args fit the parameters and the body, run on them, raised
BodyRaised ==
    /\ DispatchedRegistered /\ ~KeysMisfit
    /\ Body(TOOL_REGISTRY[dispatch.name], GivenArgs).kind = "raise"

\* C7: when the args fit and the body raises a failure of any kind, the result
\* is the ToolExecutionError "Tool '<name>' raised an error: <original message>",
\* never the argument-mismatch error.
C7_BodyFailureIsToolRaised ==
    BodyRaised =>
        /\ dispatch.result.kind = ToolExecutionError
        /\ dispatch.result.msg = "Tool '{name}' raised an error: {exc}"
        /\ dispatch.result.detail = Body(TOOL_REGISTRY[dispatch.name], GivenArgs).text

\* the given args fit the parameters and the body, run on them, returned
BodyReturned ==
    /\ DispatchedRegistered /\ ~KeysMisfit
    /\ Body(TOOL_REGISTRY[dispatch.name], GivenArgs).kind = "return"

\* C8: when the callable returns normally, execute_tool returns exactly that
\* value, and the callable was called once with exactly the given args as
\* keyword arguments (absent args being the empty mapping).
C8_ResultUnchanged ==
    BodyReturned =>
        /\ dispatch.result.kind = "ok"
        /\ dispatch.result.value = Body(TOOL_REGISTRY[dispatch.name], GivenArgs).value
        /\ Len(invoked) = 1
        /\ invoked[1].fn = TOOL_REGISTRY[dispatch.name]
        /\ invoked[1].kwargs = GivenArgs
        /\ invoked[1].ran

\* "add" was dispatched with a = 2, b = 3 and returned the int 5
C8_Witness ==
    /\ BodyReturned
    /\ dispatch.name = "add" /\ TOOL_REGISTRY["add"] = "_add"
    /\ GivenArgs = [k \in {"a", "b"} |-> IF k = "a" THEN PyInt(2) ELSE PyInt(3)]
    /\ dispatch.result.value = PyInt(5)

\* C9: no step rebinds a name: every name in TOOL_REGISTRY stays bound to the
\* callable first registered under it.
C9_FirstBindingKept ==
    [][\A n \in DOMAIN TOOL_REGISTRY :
          n \in DOMAIN TOOL_REGISTRY' /\ TOOL_REGISTRY'[n] = TOOL_REGISTRY[n]]_vars

\* C10: when the outer dict of the text lacks the key "tool" or the key "args",
\* parse_tool_call raises the missing-keys ToolCallParseError and returns no record.
C10_MissingKeys ==
    outcome.kind # "none" =>
        \A top \in {_parse_shallow_dict(content)} :
            (top.kind = "ok" /\ ~({TOOL, ARGS} \subseteq DOMAIN top.val))
            => /\ outcome.kind = ToolCallParseError
               /\ outcome.msg = "both 'tool' and 'args' keys are required"

\* the text {"tool": "echo"} was rejected for its missing "args" key
C10_Witness ==
    /\ content = <<"{">> \o Entry(Quoted(DQ, TOOL), Quoted(DQ, <<"e", "c", "h", "o">>)) \o <<"}">>
    /\ outcome.kind = ToolCallParseError
    /\ outcome.msg = "both 'tool' and 'args' keys are required"

\* the literal of the source and the mapping {"k": c}
SrcLiteral == Literal(src.delim, src.text, src.every)
OnlyK(c) == [k \in {<<"k">>} |-> c]

\* C11: a '...' or "..." literal whose content is written with a backslash
\* before every quote and backslash (or before every character) reads back as
\* exactly that content, ending at its closing quote: alone, and as an args value.
C11_EscapesRead ==
    (pc = "read" /\ Len(src.delim) = 1) =>
        /\ src.place = "bare" => outcome = Ok(src.text, Len(SrcLiteral))
        /\ src.place = "arg" => outcome = Envelope(<<"t">>, OnlyK(src.text))

\* the value "\"\\{" (content "\{ written with escapes) inside args was read back whole
C11_Witness ==
    /\ pc = "read" /\ src.place = "arg" /\ src.delim = <<DQ>> /\ ~src.every
    /\ src.text = <<DQ, "\\", "{">>
    /\ content = Placed("arg", <<DQ, "\\", DQ, "\\", "\\", "{", DQ>>)
    /\ outcome = Envelope(<<"t">>, OnlyK(<<DQ, "\\", "{">>))

\* the outcome for content c read back verbatim at the source's place
ReadVerbatim(c) ==
    CASE src.place = "bare" -> Ok(c, Len(SrcLiteral))
      [] src.place = "tool" -> Envelope(c, EmptyDict)
      [] src.place = "arg"  -> Envelope(<<"t">>, OnlyK(c))

\* C12 as stated: any content over quotes, backslashes and braces written
\* between ''' or """ reads back verbatim at every place (as the outer "tool"
\* value: any content that is not changed by trimming and is not empty).
C12_TripleVerbatimAnyContent ==
    (/\ pc = "read" /\ Len(src.delim) = 3
     /\ src.place = "tool" => (src.text # <<>> /\ Trimmed(src.text) = src.text))
    => outcome = ReadVerbatim(src.text)

\* the closing delimiter d is the first occurrence of d after the opening one
ClosesAtEnd(d, c) == \A k \in 1..Len(c) : SubSeq(c \o d, k, k + 2) # d

\* C12 amended: content that does not contain the delimiter and does not end
\* with the delimiter's quote reads back verbatim alone and as an args value;
\* as the outer "tool" value it reads back trimmed, and is rejected when the
\* trimmed content is empty.
C12_TripleVerbatim ==
    (pc = "read" /\ Len(src.delim) = 3 /\ ClosesAtEnd(src.delim, src.text)) =>
        IF src.place # "tool" THEN outcome = ReadVerbatim(src.text)
        ELSE IF Trimmed(src.text) = <<>>
        THEN outcome.kind = ToolCallParseError /\ outcome.msg = "'tool' name is empty"
        ELSE outcome = Envelope(Trimmed(src.text), EmptyDict)

\* the args value '''}'\''' (content }'\ ) was read back verbatim
C12_Witness ==
    /\ pc = "read" /\ src.place = "arg" /\ src.delim = <<SQ, SQ, SQ>>
    /\ src.text = <<"}", SQ, "\\">>
    /\ outcome = Envelope(<<"t">>, OnlyK(<<"}", SQ, "\\">>))

\* the token that brings the depth back to zero, counting brace tokens only,
\* from token k at the given depth; 0 if there is none
RECURSIVE ClosingToken(_, _, _)
ClosingToken(toks, k, depth) ==
    IF k > Len(toks) THEN 0
    ELSE IF toks[k] = "open" THEN ClosingToken(toks, k + 1, depth + 1)
    ELSE IF toks[k] = "close"
         THEN IF depth = 1 THEN k ELSE ClosingToken(toks, k + 1, depth - 1)
    ELSE ClosingToken(toks, k + 1, depth)

\* the index just past token k of the scanned text
PastToken(toks, k) == 1 + Len(TokensText(SubSeq(toks, 1, k)))

\* braces outside quoted tokens are matched, and a quoted token with braces
\* inside args is read as its literal content
BracesMatched ==
    /\ (src.kind = "scan" /\ ClosingToken(src.toks, 1, 1) > 0)
       => outcome = Ok(<<>>, PastToken(src.toks, ClosingToken(src.toks, 1, 1)))
    /\ src.kind = "arg" => outcome = Envelope(<<"t">>, OnlyK(TokenContent(src.val)))

\* C13 as stated: the index just past the closing '}' is returned, braces in
\* quoted tokens not counting, and a text that ends before the depth is back to
\* zero fails with the unbalanced-braces error.
C13_EndIsUnbalanced ==
    pc = "read" =>
        /\ BracesMatched
        /\ (src.kind = "scan" /\ ClosingToken(src.toks, 1, 1) = 0)
           => outcome.kind = ToolCallParseError /\ outcome.msg = "unbalanced braces"

\* C13 amended: as stated, except that a text ending inside a literal that is
\* never closed fails with that literal's unterminated-string error.
C13_BraceBalance ==
    pc = "read" =>
        /\ BracesMatched
        /\ (src.kind = "scan" /\ ClosingToken(src.toks, 1, 1) = 0)
           => /\ outcome.kind = ToolCallParseError
              /\ outcome.msg = CASE src.last = "" -> "unbalanced braces"
                                 [] src.last = "dq_open" -> "unterminated string literal"
                                 [] src.last = "tq_open" -> "unterminated triple-quoted string"

\* in {{'''}'{'''}}a the second '}' closed the first '{', past the quoted braces
C13_Witness ==
    /\ pc = "read" /\ src.kind = "scan"
    /\ src.toks = <<"open", "tq", "close", "close">>
    /\ outcome = Ok(<<>>, 13)

\* t followed by tail is read as one value that ends where t ends
ReadsWhole(t, tail) ==
    \E r \in {_read_value(t \o tail, 0)} :
        r.kind = "ok" /\ _skip_ws(t \o tail, r.i) = Len(t)

\* t is the source text of one value, whether ',' or '}' follows it
IsValueText(t) == ReadsWhole(t, <<",">>) /\ ReadsWhole(t, <<"}">>)

\* the same record, or a failure in both cases
SameOutcome(a, b) ==
    IF a.kind = "ok" \/ b.kind = "ok" THEN a = b ELSE a.kind = b.kind

\* C14: for value texts T and A the call written with "tool" first and the
\* call written with "args" first parse to the same record, or both fail.
C14_KeyOrder ==
    (pc = "parsed" /\ IsValueText(src.tool) /\ IsValueText(src.args)) =>
        SameOutcome(outcome,
                    parse_tool_call(WrittenPair(src.tool, src.args, ~src.toolFirst)))

\* {"args": {"k": "v"}, "tool": 7} gave the record of {"tool": 7, "args": {"k": "v"}}
C14_Witness ==
    /\ pc = "parsed" /\ ~src.toolFirst
    /\ src.tool = <<"7">>
    /\ src.args = <<"{">> \o Quoted(DQ, <<"k">>) \o <<":", " ">> \o Quoted(DQ, <<"v">>) \o <<"}">>
    /\ outcome = Envelope(<<"7">>, OnlyK(<<"v">>))
    /\ outcome = parse_tool_call(WrittenPair(src.tool, src.args, TRUE))

C16_NoRetry ==
    dispatch.kind = "done" =>
        IF dispatch.name \in DOMAIN TOOL_REGISTRY
        THEN /\ Len(invoked) = 1
             /\ invoked[1].fn = TOOL_REGISTRY[dispatch.name]
        ELSE invoked = <<>>

\* "add", bound to a callable whose body raises, was dispatched: one call, no retry
C16_Witness ==
    /\ dispatch.kind = "done" /\ dispatch.name = "add"
    /\ "add" \in DOMAIN TOOL_REGISTRY /\ TOOL_REGISTRY["add"] = "_boom"
    /\ dispatch.result.kind = ToolExecutionError
    /\ Len(invoked) = 1 /\ invoked[1].ran

\* the key a quoted key token denotes, and the value a value token denotes
KeyContent(tok) == IF tok = "dq_b" THEN <<"b">> ELSE <<"a">>
ValueContent(tok) ==
    CASE tok = "one"  -> <<"1">>
      [] tok = "dict" -> <<"{", "}">>
      [] tok = "raw7" -> <<"7">>

\* an entry whose key is not quoted, or whose key is not followed by ':'
UnquotedKey(e) == e.key = "bare_x"
MissingColon(e) == ~UnquotedKey(e) /\ e.colon = <<>>

\* the first entry with an unquoted key or a missing colon; 0 if there is none
FirstBadEntry(es) ==
    IF \E i \in DOMAIN es : UnquotedKey(es[i]) \/ MissingColon(es[i])
    THEN CHOOSE i \in DOMAIN es :
            /\ UnquotedKey(es[i]) \/ MissingColon(es[i])
            /\ \A j \in 1..(i - 1) : ~(UnquotedKey(es[j]) \/ MissingColon(es[j]))
    ELSE 0

\* the index in the written dict at which entry i starts
EntryStart(es, i) == 1 + Len(EntriesText(SubSeq(es, 1, i - 1)))

\* C17: a key position holding a character that is not a quote fails with the
\* unquoted-key error at that position, a quoted key not followed by ':' fails
\* with the missing-colon error naming the key, and every key of a returned
\* mapping was written quoted.
C17_KeysQuoted ==
    pc = "parsed" =>
        \A b \in {FirstBadEntry(src.entries)} :
            /\ (b > 0 /\ UnquotedKey(src.entries[b]))
               => outcome = Raise("dict key at pos {i} must be quoted",
                                  EntryStart(src.entries, b), <<>>)
            /\ (b > 0 /\ MissingColon(src.entries[b]))
               => outcome = Raise("missing ':' after key {key!r}", -1,
                                  KeyContent(src.entries[b].key))
            /\ outcome.kind = "ok"
               => /\ b = 0
                  /\ DOMAIN outcome.val = {KeyContent(src.entries[i].key) : i \in DOMAIN src.entries}

\* {"a" : "1",x : {}} failed at index 11, where the unquoted x stands
C17_Witness ==
    /\ pc = "parsed"
    /\ Len(src.entries) = 2
    /\ src.entries[1] = [key |-> "dq_a", colon |-> <<" ", ":", " ">>, value |-> "one", sep |-> <<",">>]
    /\ UnquotedKey(src.entries[2])
    /\ outcome.kind = ToolCallParseError
    /\ outcome.msg = "dict key at pos {i} must be quoted" /\ outcome.pos = 11

WellFormedDict == FirstBadEntry(src.entries) = 0 /\ src.closed

\* the last entry written with key k
LastEntryOf(es, k) ==
    CHOOSE i \in DOMAIN es :
        /\ KeyContent(es[i].key) = k
        /\ \A j \in (i + 1)..Len(es) : KeyContent(es[j].key) # k

\* C19: a dict whose entries repeat a key parses without error, and every key
\* of the returned mapping is bound to the value of its last occurrence.
C19_LastWriteWins ==
    (pc = "parsed" /\ WellFormedDict) =>
        /\ outcome.kind = "ok"
        /\ \A k \in DOMAIN outcome.val :
              outcome.val[k] = ValueContent(src.entries[LastEntryOf(src.entries, k)].value)

\* {"a" : "1",'a' : {}} bound a to {}
C19_Witness ==
    /\ pc = "parsed" /\ WellFormedDict
    /\ Len(src.entries) = 2
    /\ src.entries[1].key = "dq_a" /\ src.entries[1].value = "one" /\ src.entries[1].sep = <<",">>
    /\ src.entries[2].key = "sq_a" /\ src.entries[2].value = "dict"
    /\ outcome.kind = "ok"
    /\ outcome.val = [k \in {<<"a">>} |-> <<"{", "}">>]

\* the keys the entries were written with
WrittenKeys == {KeyContent(src.entries[i].key) : i \in DOMAIN src.entries}

\* some value that is not the last one is followed by no comma
ContinuesWithoutComma ==
    \E i \in 1..(Len(src.entries) - 1) : \A p \in DOMAIN src.entries[i].sep :
        src.entries[i].sep[p] # ","

\* C20 as stated: after a comma the next entry is read, and with no comma after
\* a value only the end of the dict is accepted.
C20_NoCommaEndsDict ==
    pc = "parsed" =>
        /\ (WellFormedDict /\ ~ContinuesWithoutComma)
           => outcome.kind = "ok" /\ DOMAIN outcome.val = WrittenKeys
        /\ ContinuesWithoutComma => outcome.kind # "ok"

\* C20 amended: after a value the comma, if there is one, is consumed, and the
\* loop goes on either way: '}' ends the dict, end of input fails, and anything
\* else is read as the next entry, so well-formed entries are all stored
\* whether or not commas separate them, and a trailing comma is accepted.
C20_Separators ==
    pc = "parsed" =>
        \A b \in {FirstBadEntry(src.entries)} :
            /\ (b = 0 /\ src.closed)
               => outcome.kind = "ok" /\ DOMAIN outcome.val = WrittenKeys
            /\ (b = 0 /\ ~src.closed)
               => outcome = Raise("unexpected end of input in dict", -1, <<>>)
            /\ b > 0 => outcome.kind = ToolCallParseError

\* {"a" : "1" "b" : {}} : no comma after "1", and both entries were stored
C20_Witness ==
    /\ pc = "parsed" /\ WellFormedDict /\ ContinuesWithoutComma
    /\ Len(src.entries) = 2
    /\ src.entries[1].key = "dq_a" /\ src.entries[1].value = "one" /\ src.entries[1].sep = <<" ">>
    /\ src.entries[2].key = "dq_b" /\ src.entries[2].value = "dict" /\ src.entries[2].sep = <<>>
    /\ outcome.kind = "ok"
    /\ outcome.val = [k \in {<<"a">>, <<"b">>} |-> IF k = <<"a">> THEN <<"1">> ELSE <<"{", "}">>]

\* the first token from k on that is a ',' or '}' at brace depth zero, quoted
\* tokens aside (0 when there is none); with escapes, one that follows a
\* backslash is passed over
RECURSIVE ScalarEnd(_, _, _, _)
ScalarEnd(toks, k, depth, escapes) ==
    IF k > Len(toks) THEN 0
    ELSE IF escapes /\ k > 1 /\ toks[k - 1] = "bs" /\ toks[k] \in {"comma", "close"}
    THEN ScalarEnd(toks, k + 1, depth, escapes)
    ELSE IF toks[k] = "open" THEN ScalarEnd(toks, k + 1, depth + 1, escapes)
    ELSE IF toks[k] = "close"
         THEN IF depth = 0 THEN k ELSE ScalarEnd(toks, k + 1, depth - 1, escapes)
    ELSE IF toks[k] = "comma" /\ depth = 0 THEN k
    ELSE ScalarEnd(toks, k + 1, depth, escapes)

\* the text of the tokens before token k (all of them when k is 0)
TextBefore(toks, k) ==
    TokensText(SubSeq(toks, 1, IF k = 0 THEN Len(toks) ELSE k - 1))

\* the value is the trimmed text before token k, and the index is left on token k
ScalarReadUpTo(k) ==
    \A t \in {TextBefore(src.toks, k)} :
        /\ outcome = Ok(Trimmed(t), Len(src.lead) + Len(t))
        /\ k > 0 => At(content, outcome.i) \in {",", "}"}

ClosedByLast(toks) == ClosingToken(Append(toks, "close"), 1, 1) = Len(toks) + 1

\* C22: a value that starts with '{' is stored as the exact text from that '{'
\* through its matching '}', whatever lies between them, and the parse succeeds.
C22_NestedCaptured ==
    (pc = "parsed" /\ ClosedByLast(src.toks))
        => outcome.kind = "ok" /\ outcome.val = OnlyK(NestedText(src.toks))

\* {"k": {\,"\"}" } : not a dict, stored as written with its escape and space
C22_Witness ==
    /\ pc = "parsed"
    /\ src.toks = <<"bs", "comma", "dq", "sp">>
    /\ outcome.kind = "ok"
    /\ outcome.val = OnlyK(<<"{", "\\", ",", DQ, "\\", DQ, "}", DQ, " ", "}">>)

\* the text after the opening holds three of its quote characters in a row
ClosingFollows ==
    \E j \in 1..(Len(src.after) - 2) :
        \A d \in 0..2 : src.after[j + d] = src.quote

\* C23: positioned on an opening triple quote that no closing triple quote
\* follows, _read_quoted fails with the unterminated-triple-string error,
\* wherever the opening is, the end of the text included.
C23_UnterminatedTriple ==
    (pc = "read" /\ ~ClosingFollows)
        => outcome = Raise("unterminated triple-quoted string", -1, <<>>)

\* a""" : the opening triple quote is the last three characters of the text
C23_Witness ==
    /\ pc = "read"
    /\ src.before = <<"a">> /\ src.quote = DQ /\ src.after = <<>>
    /\ content = <<"a", DQ, DQ, DQ>>
    /\ outcome.kind = ToolCallParseError
    /\ outcome.msg = "unterminated triple-quoted string"

\* C24: a step that is an execute_tool call, whatever its outcome, leaves
\* TOOL_REGISTRY as it was (the tools here do not touch the registry themselves).
C24_DispatchReadOnly ==
    [][dispatch'.kind = "done" => TOOL_REGISTRY' = TOOL_REGISTRY]_vars

\* "add", bound to a tool that raises, was dispatched, and is still bound to it
C24_Witness ==
    /\ dispatch.kind = "done" /\ dispatch.name = "add"
    /\ dispatch.result.kind = ToolExecutionError
    /\ dispatch.result.msg = "Tool '{name}' raised an error: {exc}"
    /\ TOOL_REGISTRY = [n \in {"echo", "add"} |-> IF n = "echo" THEN "echo_tool" ELSE "_boom"]

\* parse_tool_call has returned or raised
ParserDone == run # NotRun /\ run.status = "done"

\* the scan index is within the text scanned
IndexInBounds == (run # NotRun /\ run.status = "running") => run.i <= Len(run.s)

\* every loop iteration the last step finished left the scan index further on
IterationsAdvance == run # NotRun => \A c \in run.completed : c.to > c.from

\* C25: run one loop iteration at a time, parse_tool_call always comes to a
\* return or a ToolCallParseError (the one parse_tool_call is defined to give),
\* each finished iteration of each loop having moved the scan index forward,
\* and the index never being past the end of the text.
C25_Terminates ==
    /\ [](IndexInBounds /\ IterationsAdvance)
    /\ [](ParserDone => /\ run.result.kind \in {"ok", ToolCallParseError}
                        /\ run.result = parse_tool_call(content))
    /\ <>ParserDone

\* the well-formed call was parsed to the end, through both dicts
C25_Witness ==
    /\ ParserDone
    /\ content = EchoCall
    /\ run.level = "args"
    /\ run.result = Envelope(<<"e", "c", "h", "o">>,
                             [k \in {<<"t", "e", "x", "t">>} |-> <<"h", "i">>])

\* C26: _parse_response always returns, and what it returns is either exactly
\* one tool call with no answer, or no tool call with an answer that is a text.
C26_VerdictShape ==
    verdict # NotRun =>
        /\ verdict.kind = "ok"
        /\ \/ Len(verdict.tool_calls) = 1 /\ verdict.answer = None
           \/ verdict.tool_calls = <<>> /\ verdict.answer # None /\ ~verdict.answer.none

\* { 'tool' : 'e','args':{}} gave the one call of e with no args, and no answer
C26_Witness ==
    /\ content = <<"{", " ">> \o Quoted(SQ, TOOL) \o <<" ", ":", " ">> \o Quoted(SQ, <<"e">>)
                 \o <<",">> \o Quoted(SQ, ARGS) \o <<":", "{", "}", "}">>
    /\ verdict = Verdict(<<ToolCall(<<"e">>, EmptyDict)>>, None)

\* C27: a tool call comes only from a trimmed reply that begins with '{', the
\* quoted key tool and ':'; a reply parse_tool_call accepts that does not begin
\* so comes back whole as the answer, with no tool call and no parse result.
C27_ToolKeyFirst ==
    verdict.kind = "ok" =>
        \A s \in {Trimmed(content)} :
            /\ verdict.tool_calls # <<>> => HasToolKeyPrefix(s)
            /\ (~HasToolKeyPrefix(s) /\ parse_tool_call(s).kind = "ok")
               => verdict = Verdict(<<>>, Plain(s))

\* {"args": {}, "tool": "echo"} parses to a call of echo and was answered as text
C27_Witness ==
    /\ content = <<"{">> \o Entry(Quoted(DQ, ARGS), <<"{", "}">>) \o <<",", " ">>
                 \o Entry(Quoted(DQ, TOOL), Quoted(DQ, <<"e", "c", "h", "o">>)) \o <<"}">>
    /\ parse_tool_call(content) = Envelope(<<"e", "c", "h", "o">>, EmptyDict)
    /\ verdict = Verdict(<<>>, Plain(content))

\* C28: an accepted text cut at its closing brace and followed by any suffix
\* parses to the record the accepted text parses to.
C28_TrailingIgnored ==
    pc = "parsed" => outcome.kind = "ok" /\ outcome = parse_tool_call(src.text)

\* the echo call followed by }" parsed to the call of echo
C28_Witness ==
    /\ pc = "parsed"
    /\ content = EchoCall \o <<"}", DQ>>
    /\ outcome = Envelope(<<"e", "c", "h", "o">>,
                          [k \in {<<"t", "e", "x", "t">>} |-> <<"h", "i">>])

\* the args a written dict stands for
InnerDicts == {"empty", "kv", "kv_sq", "raw", "pad"}
InnerArgs(tok) ==
    CASE tok \in {"empty", "pad"} -> EmptyDict
      [] tok \in {"kv", "kv_sq"} -> OnlyK(<<"v">>)
      [] tok = "raw" -> OnlyK(<<"7">>)

\* C29: args written as a string whose content is a dict gives the args the
\* same dict gives when written unquoted, and the not-a-dict error is raised
\* exactly when the trimmed text written as args does not begin with '{'.
C29_ArgsQuotedOrNot ==
    pc = "parsed" =>
        /\ src.inner \in InnerDicts => outcome = Envelope(<<"t">>, InnerArgs(src.inner))
        /\ (outcome.kind = ToolCallParseError /\ outcome.msg = "'args' must start with '{'")
           <=> ~StartsWith(Trimmed(InnerText(src.inner)), <<"{">>)

\* {"tool": "t", "args": "{\"k\": \"v\"}"} : the string was parsed as the dict
C29_Witness ==
    /\ pc = "parsed"
    /\ src.inner = "kv" /\ src.form = "dq" /\ ~src.every /\ src.toolFirst
    /\ At(content, 22) = DQ /\ At(content, 23) = "{" /\ At(content, 24) = "\\"
    /\ outcome = Envelope(<<"t">>, OnlyK(<<"v">>))

\* ---- C30 ----

ApiCalled == api_call.kind = "call"
ApiReturned == ApiCalled /\ api_call.at = "done"

\* no more POSTs than max_retries
AtMostMaxRetries == Len(api_call.posts) <= api_call.max_retries

\* every POST that another one followed was refused, and was not the last
\* attempt range(max_retries) allows
RetriedOnlyRefused ==
    \A k \in 1..(Len(api_call.posts) - 1) :
        api_call.posts[k] = "ConnectError" /\ k < api_call.max_retries

\* once a POST was answered, or failed otherwise, or was the last attempt,
\* the loop is not taken again
EndsAtOnce ==
    (/\ api_call.posts # <<>>
     /\ \/ api_call.posts[Len(api_call.posts)] # "ConnectError"
        \/ Len(api_call.posts) = api_call.max_retries)
    => api_call.at \in {"posted", "done"}

\* what comes back is a mapping: the 2xx body when the last POST was answered,
\* otherwise one with a "reply" text; no exception leaves call_api
ReturnsMapping ==
    api_call.at = "done" =>
        /\ api_call.result.kind = "return"
        /\ api_call.result.value.type = "dict"
        /\ IF api_call.posts # <<>> /\ api_call.posts[Len(api_call.posts)] = "none"
           THEN api_call.result.value = SuccessBody(api_call.endpoint)
           ELSE DOMAIN api_call.result.value.items = {"reply"}

=============================================================================
